---- MODULE Spec2Model ----
(***************************************************************************)
(* Louisiana QSO Party log processing: validate -> prepare -> score.       *)
(*                                                                         *)
(* A log line is the sequence of its whitespace-separated tokens           *)
(* (line.split()); a token is a sequence of atoms, where the separator     *)
(* characters "/" and "," are atoms of their own, so that the splits the   *)
(* code performs on a token are computed and not assumed:                  *)
(*   "K5YY/M"  is <<"K5YY", "/", "M">>,  "3,0,1,0" is <<"3",",","0",...>>. *)
(* Python's parts[k] is parts[k+1] here (sequences start at 1).            *)
(* Python's None is the string "None" for names and 0 for a band.          *)
(***************************************************************************)
EXTENDS Integers, Sequences, FiniteSets, Bags, TLC

VARIABLES
    sres,       \* score_log: the result dict being built
    slog,       \* score_log: the QSO lines of the file read so far
    spc,        \* score_log: "idle", "reading", "done", "raised"
    vres,       \* validate_log_file: the ValidationResult and the locals
    vseen,      \* validate_log_file: the header lines of the file read so far
    vpc,        \* validate_log_file: "idle", "reading", "done"
    qline,      \* one QSO line given to the validator
    qres,       \* the ValidationResult of a log holding that line alone
    qcode,      \* what _validate_qso_line returned for it
    qpc,        \* "idle", "ready", "done"
    incoming,   \* process_all: the logs of the incoming directory
    options,    \* process_all: clean_start and validate_only
    validated,  \* the validated directory
    problems,   \* the problems directory: each log with its error report
    prepared,   \* the prepared directory: each log with its lines
    all_scores, \* what score_logs returned, and
    category_scores,
    stats,      \* LogProcessor.stats
    queue,      \* the log files the running loop has still to visit
    ppc,        \* "idle", "start", "validate", "prepare", "done"
    prst,       \* prepare_log: its locals
    prseen,     \* prepare_log: the header lines of the file read so far
    prout,      \* prepare_log: what it raised, wrote and returned
    prpc,       \* prepare_log: "idle", "reading", "done"
    prepared_logs_dir,   \* score_all_logs: the prepared logs, by file name
    score_data,          \* score_all_logs: all_scores
    category_standings,  \* score_all_logs: category_scores
    individual_results,  \* generate_all_individual_results: the files written
    apc,        \* aggregation: "idle", "collect", "scored", "done"
    cline,      \* parse_cabrillo_line: the line given to it
    cparsed,    \* parse_cabrillo_line: what it raised or returned
    cpc,        \* parse_cabrillo_line: "idle", "ready", "done"
    self_parishes,  \* StatisticsGenerator: self.parishes
    stat_log_paths, \* generate_statistics: the logs of the last call
    stat_returned,  \* generate_statistics: the stats the last call returned
    stat_calls,     \* the number of calls of generate_statistics so far
    statpc      \* StatisticsGenerator: "idle", "made"

svars == <<sres, slog, spc>>
vvars == <<vres, vseen, vpc>>
qvars == <<qline, qres, qcode, qpc>>
pvars == <<incoming, options, validated, problems, prepared, all_scores,
           category_scores, stats, queue, ppc>>
prvars == <<prst, prseen, prout, prpc>>
avars == <<prepared_logs_dir, score_data, category_standings,
           individual_results, apc>>
cvars == <<cline, cparsed, cpc>>
gvars == <<self_parishes, stat_log_paths, stat_returned, stat_calls, statpc>>
vars == <<svars, vvars, qvars, pvars, prvars, avars, cvars, gvars>>

(***************************************************************************)
(* Bounds                                                                  *)
(***************************************************************************)
MaxQsos == 2
MaxFindings == 2
MaxIncoming == 4

(***************************************************************************)
(* Tokens                                                                  *)
(***************************************************************************)
T(a) == <<a>>

HasAtom(tok, a) == \E i \in 1..Len(tok) : tok[i] = a

\* str.split(sep) on one token
RECURSIVE Split(_, _)
Split(tok, sep) ==
    IF ~HasAtom(tok, sep)
    THEN <<tok>>
    ELSE LET i == CHOOSE k \in 1..Len(tok) :
                      tok[k] = sep /\ \A j \in 1..(k - 1) : tok[j] # sep
         IN  <<SubSeq(tok, 1, i - 1)>> \o Split(SubSeq(tok, i + 1, Len(tok)), sep)

\* int(): the decimal strings the inputs use, with their values
IntVal ==
    [s \in {"0", "1", "2", "3", "20", "40", "160", "1799", "1800", "1900",
         "2000", "2001", "3499", "3500", "4000", "4001", "6999", "7000",
         "7100", "7300", "7301", "13999", "14000", "14250", "14350",
         "14351", "20999", "21000", "21450", "21451", "27999", "28000",
         "29700", "29701", "49999", "50000", "54000", "54001", "143999",
         "144000", "148000", "148001"} |->
        CASE s = "0" -> 0 [] s = "1" -> 1 [] s = "2" -> 2 [] s = "3" -> 3
          [] s = "20" -> 20 [] s = "40" -> 40 [] s = "160" -> 160
          [] s = "1799" -> 1799 [] s = "1800" -> 1800 [] s = "1900" -> 1900
          [] s = "2000" -> 2000 [] s = "2001" -> 2001 [] s = "3499" -> 3499
          [] s = "3500" -> 3500 [] s = "4000" -> 4000 [] s = "4001" -> 4001
          [] s = "6999" -> 6999 [] s = "7000" -> 7000 [] s = "7100" -> 7100
          [] s = "7300" -> 7300 [] s = "7301" -> 7301
          [] s = "13999" -> 13999 [] s = "14000" -> 14000
          [] s = "14250" -> 14250 [] s = "14350" -> 14350
          [] s = "14351" -> 14351 [] s = "20999" -> 20999
          [] s = "21000" -> 21000 [] s = "21450" -> 21450
          [] s = "21451" -> 21451 [] s = "27999" -> 27999
          [] s = "28000" -> 28000 [] s = "29700" -> 29700
          [] s = "29701" -> 29701 [] s = "49999" -> 49999
          [] s = "50000" -> 50000 [] s = "54000" -> 54000
          [] s = "54001" -> 54001 [] s = "143999" -> 143999
          [] s = "144000" -> 144000 [] s = "148000" -> 148000
          [] s = "148001" -> 148001]

IsInt(tok) == Len(tok) = 1 /\ tok[1] \in DOMAIN IntVal

int(tok) == IntVal[tok[1]]

\* "tok in collection" for a collection of plain strings
In(tok, S) == Len(tok) = 1 /\ tok[1] \in S

(***************************************************************************)
(* config/config.py                                                        *)
(***************************************************************************)
PHONE_MODES == {"PH", "FM", "SSB", "LSB", "USB"}
CW_DIGITAL_MODES == {"CW", "RY", "DIG", "RTTY", "FT8", "FT4"}
VALID_MODES == {"CW", "PH", "RY", "DIG", "FM", "SSB", "LSB", "USB", "RTTY", "FT8", "FT4"}

PHONE_QSO_POINTS == 2
CW_DIGITAL_QSO_POINTS == 4
N5LCC_BONUS == 100
ROVER_PARISH_BONUS == 50

LOC_DX == 0
LOC_NON_LA == 1
LOC_LA_FIXED == 2
LOC_LA_ROVER == 3

MODE_PHONE_ONLY == 0
MODE_CW_DIGITAL_ONLY == 1
MODE_MIXED == 2

POWER_QRP == 0
POWER_LOW == 1
POWER_HIGH == 2

OVERLAY_NONE == 0
OVERLAY_WIRES == 1
OVERLAY_TB_WIRES == 2
OVERLAY_POTA == 3

BANDS == {160, 80, 40, 20, 15, 10, 6, 2}

BAND_RANGES ==
    [b \in BANDS |->
        CASE b = 160 -> <<1800, 2000>>
          [] b = 80  -> <<3500, 4000>>
          [] b = 40  -> <<7000, 7300>>
          [] b = 20  -> <<14000, 14350>>
          [] b = 15  -> <<21000, 21450>>
          [] b = 10  -> <<28000, 29700>>
          [] b = 6   -> <<50000, 54000>>
          [] b = 2   -> <<144000, 148000>>]

\* (mutant) the upper edge of each range left out
freq_to_band_Exclusive(freq_khz) ==
    IF \E b \in BANDS : BAND_RANGES[b][1] <= freq_khz /\ freq_khz < BAND_RANGES[b][2]
    THEN CHOOSE b \in BANDS : BAND_RANGES[b][1] <= freq_khz /\ freq_khz < BAND_RANGES[b][2]
    ELSE 0

\* The ranges are disjoint, so the first match of the loop is the only one.
freq_to_band(freq_khz) ==
    IF \E b \in BANDS : BAND_RANGES[b][1] <= freq_khz /\ freq_khz <= BAND_RANGES[b][2]
    THEN CHOOSE b \in BANDS : BAND_RANGES[b][1] <= freq_khz /\ freq_khz <= BAND_RANGES[b][2]
    ELSE 0

(***************************************************************************)
(* Reference data (la_parishes.txt, wve_abbrevs.txt): a sample of each.    *)
(***************************************************************************)
parish_list == {"ORLE", "JEFF"}
state_province_list == {"TX", "ON"}

(***************************************************************************)
(* laqp/categories.py                                                      *)
(***************************************************************************)
LocPrefix(location_type) ==
    IF location_type \in {0, 1} THEN "nl"
    ELSE IF location_type = 2 THEN "lf"
    ELSE "lr"

ModeSuffix(mode_category) ==
    IF mode_category = 0 THEN "ph"
    ELSE IF mode_category = 1 THEN "cw"
    ELSE "mx"

PowerSuffix(power_level) ==
    IF power_level = 0 THEN "qp"
    ELSE IF power_level = 1 THEN "lo"
    ELSE "hi"

\* f"{loc}_{mode}_{power}" is the triple of its parts
get_category_short_name(location_type, mode_category, power_level, overlay) ==
    <<LocPrefix(location_type), ModeSuffix(mode_category),
      IF overlay > 0 THEN "ol" ELSE PowerSuffix(power_level)>>

get_base_category(location_type, mode_category, power_level) ==
    <<LocPrefix(location_type), ModeSuffix(mode_category), PowerSuffix(power_level)>>

get_overlay_name(overlay) ==
    CASE overlay = 0 -> "None"
      [] overlay = 1 -> "WIRES"
      [] overlay = 2 -> "TB-WIRES"
      [] overlay = 3 -> "POTA"
      [] OTHER -> "None"

(***************************************************************************)
(* laqp/core/scoring.py: ScoreCalculator.score_log                         *)
(***************************************************************************)
CANADIAN_PROVINCES ==
    {"AB", "BC", "MB", "NB", "NL", "NS", "NT", "NU", "ON", "PE", "QC", "SK", "YT"}

ScoreInitResult ==
    [callsign |-> <<>>, category |-> <<>>, base_category |-> <<>>,
     overlay |-> "None",
     location_type |-> LOC_NON_LA, mode_category |-> MODE_MIXED,
     power_level |-> POWER_LOW,
     final_score |-> 0, qso_points |-> 0, total_qsos |-> 0, valid_qsos |-> 0,
     multipliers |-> 0,
     parishes_worked |-> {}, states_worked |-> {}, provinces_worked |-> {},
     dx_worked |-> {},
     parishes_activated |-> 0, worked_n5lcc |-> FALSE,
     qsos_by_band |-> EmptyBag,
     qsos_by_mode |-> [Phone |-> 0, CWDigital |-> 0],
     bands_worked |-> <<>>,
     raised |-> FALSE]

score_freq_to_band(freq_khz) ==
    IF 1800 <= freq_khz /\ freq_khz <= 2000 THEN 160
    ELSE IF 3500 <= freq_khz /\ freq_khz <= 4000 THEN 80
    ELSE IF 7000 <= freq_khz /\ freq_khz <= 7300 THEN 40
    ELSE IF 14000 <= freq_khz /\ freq_khz <= 14350 THEN 20
    ELSE IF 21000 <= freq_khz /\ freq_khz <= 21450 THEN 15
    ELSE IF 28000 <= freq_khz /\ freq_khz <= 29700 THEN 10
    ELSE IF 50000 <= freq_khz /\ freq_khz <= 54000 THEN 6
    ELSE IF 144000 <= freq_khz /\ freq_khz <= 148000 THEN 2
    ELSE 0

\* the LAQP-CATEGORY: branch; int() of a non-number raises ValueError
ScoreCategoryLine(result, parts) ==
    IF Len(parts) > 1
    THEN LET cat_parts == Split(parts[2], ",") IN
         IF Len(cat_parts) >= 4
         THEN IF \A i \in 1..4 : IsInt(cat_parts[i])
              THEN LET location_type == int(cat_parts[1])
                       mode_category == int(cat_parts[2])
                       power_level   == int(cat_parts[3])
                       overlay_int   == int(cat_parts[4])
                   IN  [result EXCEPT
                          !.location_type = location_type,
                          !.mode_category = mode_category,
                          !.power_level = power_level,
                          !.category = get_category_short_name(
                              location_type, mode_category, power_level, overlay_int),
                          !.base_category = get_base_category(
                              location_type, mode_category, power_level),
                          !.overlay = get_overlay_name(overlay_int)]
              ELSE [result EXCEPT !.raised = TRUE]
         ELSE result
    ELSE result

\* "Count by mode": the points of one contact
QsoPoints(mode) ==
    IF In(mode, PHONE_MODES) THEN PHONE_QSO_POINTS
    ELSE IF In(mode, CW_DIGITAL_MODES) THEN CW_DIGITAL_QSO_POINTS
    ELSE PHONE_QSO_POINTS

CountByMode(qsos_by_mode, mode) ==
    IF In(mode, PHONE_MODES)
    THEN [qsos_by_mode EXCEPT !.Phone = @ + 1]
    ELSE IF In(mode, CW_DIGITAL_MODES)
    THEN [qsos_by_mode EXCEPT !.CWDigital = @ + 1]
    ELSE qsos_by_mode

\* "Track multipliers (QTH worked)"
TrackWorked(result, qth_rcvd_upper) ==
    IF In(qth_rcvd_upper, parish_list)
    THEN [result EXCEPT !.parishes_worked = @ \cup {qth_rcvd_upper}]
    ELSE IF In(qth_rcvd_upper, state_province_list)
    THEN IF In(qth_rcvd_upper, CANADIAN_PROVINCES)
         THEN [result EXCEPT !.provinces_worked = @ \cup {qth_rcvd_upper}]
         ELSE [result EXCEPT !.states_worked = @ \cup {qth_rcvd_upper}]
    ELSE [result EXCEPT !.dx_worked = @ \cup {qth_rcvd_upper}]

\* "Check if worked N5LCC"
TrackN5LCC(worked_n5lcc, call_rcvd) ==
    IF call_rcvd = T("N5LCC") THEN TRUE ELSE worked_n5lcc

\* the QSO: branch
ScoreQsoLine(result, parts) ==
    LET counted == [result EXCEPT !.total_qsos = @ + 1] IN
    IF Len(parts) >= 11
    THEN IF ~IsInt(parts[2])
         THEN [counted EXCEPT !.raised = TRUE]
         ELSE LET freq == int(parts[2])
                  mode == parts[3]
                  call_rcvd == parts[9]
                  qth_rcvd == parts[11]
                  band == score_freq_to_band(freq)
                  r1 == IF band # 0
                        THEN [counted EXCEPT
                                !.qsos_by_band = @ (+) SetToBag({band})]
                        ELSE counted
                  r2 == [r1 EXCEPT
                           !.qsos_by_mode = CountByMode(@, mode),
                           !.qso_points = @ + QsoPoints(mode),
                           !.valid_qsos = @ + 1]
                  r3 == TrackWorked(r2, qth_rcvd)
              IN  [r3 EXCEPT !.worked_n5lcc = TrackN5LCC(@, call_rcvd)]
    ELSE counted

\* the body of the "for line in f" loop
ScoreLine(result, parts) ==
    IF parts = <<>> THEN result
    ELSE IF parts[1] = T("CALLSIGN:")
    THEN [result EXCEPT !.callsign = IF Len(parts) > 1 THEN parts[2] ELSE <<>>]
    ELSE IF parts[1] = T("LAQP-CATEGORY:") THEN ScoreCategoryLine(result, parts)
    ELSE IF parts[1] = T("QSO:") THEN ScoreQsoLine(result, parts)
    ELSE result

\* (mutant) the multiplier scope of a Louisiana log applied to every log
CalculateMultipliers_AnyLocation(result) ==
    Cardinality(result.parishes_worked) + Cardinality(result.states_worked)
    + Cardinality(result.provinces_worked) + Cardinality(result.dx_worked)

\* (mutant) one multiplier per scored contact instead of per distinct location
CalculateMultipliers_PerContact(result) == result.valid_qsos

\* "Calculate multipliers"
CalculateMultipliers(result) ==
    IF result.location_type \in {LOC_DX, LOC_NON_LA}
    THEN Cardinality(result.parishes_worked)
    ELSE Cardinality(result.parishes_worked) + Cardinality(result.states_worked)
         + Cardinality(result.provinces_worked) + Cardinality(result.dx_worked)

\* (mutant) the club bonus granted once per scored contact
AddN5LCCBonus_PerContact(result, score) ==
    IF result.worked_n5lcc THEN score + N5LCC_BONUS * result.valid_qsos ELSE score

\* "Add N5LCC bonus"
AddN5LCCBonus(result, score) ==
    IF result.worked_n5lcc THEN score + N5LCC_BONUS ELSE score

\* "Add rover parish activation bonus": the count it uses
ParishesActivated(result) ==
    IF result.location_type = LOC_LA_ROVER
    THEN Cardinality(result.parishes_worked)
    ELSE result.parishes_activated

AddRoverBonus(result, score) ==
    IF result.location_type = LOC_LA_ROVER
    THEN score + ParishesActivated(result) * ROVER_PARISH_BONUS
    ELSE score

\* sorted(keys)
RECURSIVE Sorted(_)
Sorted(S) ==
    IF S = {} THEN <<>>
    ELSE LET m == CHOOSE x \in S : \A y \in S : x <= y
         IN  <<m>> \o Sorted(S \ {m})

\* what follows the loop
ScoreFinish(result) ==
    LET multipliers == CalculateMultipliers(result)
        base == result.qso_points * multipliers
    IN  [result EXCEPT
           !.multipliers = multipliers,
           !.parishes_activated = ParishesActivated(result),
           !.final_score = AddRoverBonus(result, AddN5LCCBonus(result, base)),
           !.bands_worked = Sorted(BagToSet(result.qsos_by_band))]

(***************************************************************************)
(* The prepared-log lines score_log is run on                              *)
(***************************************************************************)
QsoLine(freq, mode, date, time, call_sent, qth_sent, call_rcvd, qth_rcvd) ==
    <<T("QSO:"), freq, mode, T(date), T(time), call_sent, T("59"), qth_sent,
      call_rcvd, T("59"), qth_rcvd>>

PreparedQso(band, mode, qth_sent, call_rcvd, qth_rcvd) ==
    QsoLine(T(band), T(mode), "2024-04-06", "1500", T("W5XX"), T(qth_sent),
            T(call_rcvd), T(qth_rcvd))

ScoreQsoLines ==
    {PreparedQso(f, m, "ORLE", c, q) :
        f \in {"14250", "7100"}, m \in {"PH", "CW"},
        c \in {"N5LCC", "K5YY"}, q \in {"ORLE", "TX", "DL"}}
    \cup {PreparedQso("14250", "PH", "JEFF", "K5YY", "ORLE"),
          PreparedQso("14250", "PH", "TX", "K5YY", "JEFF"),
          PreparedQso("14250", "PH", "ORLE", "K5YY", "ON"),
          PreparedQso("20", "PH", "ORLE", "K5YY", "ORLE"),
          PreparedQso("14250", "XX", "ORLE", "K5YY", "ORLE"),
          PreparedQso("KHZ", "PH", "ORLE", "K5YY", "ORLE"),
          <<T("QSO:"), T("14250"), T("PH")>>}

CategoryLine(l, m, p, o) ==
    <<T("LAQP-CATEGORY:"), <<l, ",", m, ",", p, ",", o>>>>

ScoreHeaderLines ==
    {<<>>,
     <<T("CALLSIGN:"), T("W5XX")>>,
     <<T("CALLSIGN:")>>,
     <<T("START-OF-LOG:"), T("3.0")>>,
     <<T("TQP-CATEGORY:"), T("lf_ph_lo")>>,
     <<T("LAQP-CATEGORY:")>>,
     <<T("LAQP-CATEGORY:"), <<"3", ",", "0", ",", "1">>>>,
     CategoryLine("X", "0", "1", "0"),
     CategoryLine("0", "0", "1", "0"),
     CategoryLine("1", "2", "1", "0"),
     CategoryLine("2", "0", "2", "1"),
     CategoryLine("3", "1", "0", "0")}

(***************************************************************************)
(* score_log as a state machine: one step per line, then the final         *)
(* calculation.                                                            *)
(***************************************************************************)
ScoreIdle == sres = ScoreInitResult /\ slog = <<>> /\ spc = "idle"

ScoreStart == sres = ScoreInitResult /\ slog = <<>> /\ spc = "reading"

ScoreReadHeader ==
    /\ spc = "reading"
    /\ \E parts \in ScoreHeaderLines :
          LET r == ScoreLine(sres, parts) IN
          /\ sres' = r
          /\ spc' = IF r.raised THEN "raised" ELSE "reading"
    /\ UNCHANGED slog

ScoreReadQso ==
    /\ spc = "reading"
    /\ sres.total_qsos < MaxQsos
    /\ \E parts \in ScoreQsoLines :
          LET r == ScoreLine(sres, parts) IN
          /\ sres' = r
          /\ slog' = Append(slog, parts)
          /\ spc' = IF r.raised THEN "raised" ELSE "reading"

ScoreEndOfFile ==
    /\ spc = "reading"
    /\ sres' = ScoreFinish(sres)
    /\ spc' = "done"
    /\ UNCHANGED slog

ScoreNext ==
    /\ ScoreReadHeader \/ ScoreReadQso \/ ScoreEndOfFile
    /\ UNCHANGED <<vvars, qvars, pvars, prvars, avars, cvars, gvars>>

(***************************************************************************)
(* laqp/core/validator.py                                                  *)
(* Input lines are given in upper case, as line.strip().upper() leaves     *)
(* them.  errors and warnings keep the kind of each message (its text      *)
(* without the line number and the quoted values), as bags.                *)
(***************************************************************************)
CONTEST_START_DAY1 == <<2024, 4, 6>>
CONTEST_END_DAY1 == <<2024, 4, 7>>
CONTEST_START_TIME == <<14, 0>>
CONTEST_END_TIME == <<2, 0>>

\* datetime.strptime(s, "%Y-%m-%d").date(): the date strings the inputs use
DateVal ==
    [s \in {"2024-04-05", "2024-04-06", "2024-04-07", "2024-04-08"} |->
        CASE s = "2024-04-05" -> <<2024, 4, 5>>
          [] s = "2024-04-06" -> <<2024, 4, 6>>
          [] s = "2024-04-07" -> <<2024, 4, 7>>
          [] s = "2024-04-08" -> <<2024, 4, 8>>]

IsDate(tok) == Len(tok) = 1 /\ tok[1] \in DOMAIN DateVal

\* datetime.strptime(s, "%H%M").time(): the time strings the inputs use
TimeVal ==
    [s \in {"0130", "0300", "1300", "1500", "2359"} |->
        CASE s = "0130" -> <<1, 30>>
          [] s = "0300" -> <<3, 0>>
          [] s = "1300" -> <<13, 0>>
          [] s = "1500" -> <<15, 0>>
          [] s = "2359" -> <<23, 59>>]

IsTime(tok) == Len(tok) = 1 /\ tok[1] \in DOMAIN TimeVal

\* date <= date
DateLE(a, b) ==
    \/ a[1] < b[1]
    \/ a[1] = b[1] /\ a[2] < b[2]
    \/ a[1] = b[1] /\ a[2] = b[2] /\ a[3] <= b[3]

ValidationResult ==
    [callsign |-> <<>>, is_valid |-> TRUE,
     errors |-> EmptyBag, warnings |-> EmptyBag,
     qso_count |-> 0, invalid_qso_count |-> 0,
     has_valid_power |-> TRUE, has_valid_operator |-> TRUE, has_email |-> FALSE,
     log_email |-> <<>>, log_mode_category |-> "", log_power |-> <<>>,
     log_station |-> <<>>, log_overlay |-> <<>>,
     has_start |-> FALSE, has_end |-> FALSE, has_power |-> FALSE,
     has_operator |-> FALSE, qso_modes |-> {}]

add_error(result, message) ==
    [result EXCEPT !.errors = @ (+) SetToBag({message}), !.is_valid = FALSE]

add_warning(result, message) ==
    [result EXCEPT !.warnings = @ (+) SetToBag({message})]

\* "Validate frequency"
ValidateFrequency(freq_str) ==
    IF ~IsInt(freq_str) THEN <<1, "Invalid frequency - not an integer">>
    ELSE IF freq_to_band(int(freq_str)) = 0
    THEN <<1, "Invalid frequency (not in a valid contest band)">>
    ELSE <<0, "OK">>

\* "Validate mode"
ValidateMode(mode) ==
    IF ~In(mode, VALID_MODES) THEN <<2, "Invalid mode">> ELSE <<0, "OK">>

\* "Validate date"
ValidateDate(date_str) ==
    IF ~IsDate(date_str) THEN <<3, "Invalid date format (use YYYY-MM-DD)">>
    ELSE IF ~(DateLE(CONTEST_START_DAY1, DateVal[date_str[1]])
              /\ DateLE(DateVal[date_str[1]], CONTEST_END_DAY1))
    THEN <<3, "Date outside contest period">>
    ELSE <<0, "OK">>

\* "Validate time"
ValidateTime(date_str, time_str) ==
    IF ~IsTime(time_str) THEN <<4, "Invalid time format (use HHMM)">>
    ELSE <<0, "OK">>

\* "Validate callsigns", "Validate RST"
ValidateCallsigns(call_sent, call_rcvd) ==
    IF call_sent = <<>> \/ call_rcvd = <<>> THEN <<5, "Missing callsign">>
    ELSE <<0, "OK">>

ValidateRst(rst_sent, rst_rcvd) ==
    IF rst_sent = <<>> \/ rst_rcvd = <<>> THEN <<6, "Missing RST">>
    ELSE <<0, "OK">>

\* "Validate QTH" and what follows it
ValidateQth(qth_sent, qth_rcvd) ==
    IF qth_sent = <<>> \/ qth_rcvd = <<>> THEN <<7, "Missing QTH exchange">>
    ELSE IF HasAtom(qth_sent, "/") \/ HasAtom(qth_rcvd, "/")
    THEN <<8, "Multi-parish QTH detected (will be split during processing)">>
    ELSE IF ~In(qth_sent, parish_list) /\ ~In(qth_sent, state_province_list)
    THEN <<7, "Invalid QTH-sent (not a valid parish or state/province)">>
    ELSE IF ~In(qth_rcvd, parish_list) /\ ~In(qth_rcvd, state_province_list)
    THEN <<7, "Invalid QTH-rcvd (not a valid parish or state/province)">>
    ELSE <<0, "OK">>

\* (mutant) every token count other than 11 rejected
QsoTooShort_NotEleven(parts) == Len(parts) # 11

\* the length test of _validate_qso_line
QsoTooShort(parts) == Len(parts) < 11

\* the first check that fails decides what is returned
FirstFailure(checks) ==
    IF \E i \in 1..Len(checks) : checks[i][1] # 0
    THEN checks[CHOOSE i \in 1..Len(checks) :
                    checks[i][1] # 0 /\ \A j \in 1..(i - 1) : checks[j][1] = 0]
    ELSE <<0, "OK">>

validate_qso_line(parts) ==
    IF QsoTooShort(parts)
    THEN <<-1, "QSO line too short (need at least 11 fields)">>
    ELSE FirstFailure(<<ValidateFrequency(parts[2]),
                        ValidateMode(parts[3]),
                        ValidateDate(parts[4]),
                        ValidateTime(parts[4], parts[5]),
                        ValidateCallsigns(parts[6], parts[9]),
                        ValidateRst(parts[7], parts[10]),
                        ValidateQth(parts[8], parts[11])>>)

\* (mutant) code 8 handled as the codes below it
ValidateQsoBranch_WarningAsError(result, parts) ==
    LET r1 == [result EXCEPT !.qso_count = @ + 1]
        res == validate_qso_line(parts)
        r2 == IF Len(parts) >= 3
              THEN [r1 EXCEPT !.qso_modes = @ \cup {parts[3]}] ELSE r1
    IN  IF res[1] = -1 \/ (res[1] > 0 /\ res[1] <= 8)
        THEN add_error([r2 EXCEPT !.invalid_qso_count = @ + 1], res[2])
        ELSE r2

\* (mutant) only the fatal code reported; codes 1 to 7 let through
ValidateQsoBranch_FatalOnly(result, parts) ==
    LET r1 == [result EXCEPT !.qso_count = @ + 1]
        res == validate_qso_line(parts)
        r2 == IF Len(parts) >= 3
              THEN [r1 EXCEPT !.qso_modes = @ \cup {parts[3]}] ELSE r1
    IN  IF res[1] = -1
        THEN add_error([r2 EXCEPT !.invalid_qso_count = @ + 1], res[2])
        ELSE IF res[1] = 8 THEN add_warning(r2, res[2])
        ELSE r2

\* the QSO: branch of validate_log_file
ValidateQsoBranch(result, parts) ==
    LET r1 == [result EXCEPT !.qso_count = @ + 1]
        res == validate_qso_line(parts)
        error_code == res[1]
        error_msg == res[2]
        r2 == IF Len(parts) >= 3
              THEN [r1 EXCEPT !.qso_modes = @ \cup {parts[3]}] ELSE r1
    IN  IF error_code = -1
        THEN add_error([r2 EXCEPT !.invalid_qso_count = @ + 1], error_msg)
        ELSE IF error_code > 0 /\ error_code < 8
        THEN add_error([r2 EXCEPT !.invalid_qso_count = @ + 1], error_msg)
        ELSE IF error_code = 8
        THEN add_warning(r2, error_msg)
        ELSE r2

\* the header branches of validate_log_file
ValidateHeaderBranch(result, parts) ==
    LET tag == parts[1] IN
    IF tag = T("START-OF-LOG:")
    THEN LET r == [result EXCEPT !.has_start = TRUE] IN
         IF Len(parts) < 2 \/ parts[2] # T("3.0")
         THEN add_warning(r, "Expected START-OF-LOG: 3.0") ELSE r
    ELSE IF tag = T("END-OF-LOG:")
    THEN [result EXCEPT !.has_end = TRUE]
    ELSE IF tag = T("CALLSIGN:")
    THEN IF Len(parts) < 2
         THEN add_error(result, "Missing callsign")
         ELSE [result EXCEPT !.callsign = parts[2]]
    ELSE IF tag = T("EMAIL:")
    THEN IF Len(parts) >= 2
         THEN [result EXCEPT !.log_email = parts[2], !.has_email = TRUE]
         ELSE result
    ELSE IF tag = T("CONTEST:")
    THEN IF Len(parts) < 2 \/ parts[2] # T("LA-QSO-PARTY")
         THEN add_error(result, "CONTEST must be LA-QSO-PARTY") ELSE result
    ELSE IF tag = T("CATEGORY-POWER:")
    THEN IF Len(parts) >= 2
         THEN LET r == [result EXCEPT !.has_power = TRUE, !.log_power = parts[2]] IN
              IF ~In(parts[2], {"QRP", "LOW", "HIGH"})
              THEN add_error(r, "CATEGORY-POWER must be QRP, LOW, or HIGH") ELSE r
         ELSE result
    ELSE IF tag = T("CATEGORY-OPERATOR:")
    THEN [result EXCEPT !.has_operator = TRUE]
    ELSE IF tag = T("CATEGORY-STATION:")
    THEN IF Len(parts) >= 2
         THEN LET r == [result EXCEPT !.log_station = parts[2]] IN
              IF ~In(parts[2], {"FIXED", "ROVER", "MOBILE"})
              THEN add_warning(r, "CATEGORY-STATION should be FIXED or ROVER") ELSE r
         ELSE result
    ELSE IF tag = T("CATEGORY-OVERLAY:")
    THEN IF Len(parts) >= 2
         THEN LET r == [result EXCEPT !.log_overlay = parts[2]] IN
              IF ~In(parts[2], {"WIRES", "TB-WIRES", "POTA"})
              THEN add_warning(r, "CATEGORY-OVERLAY should be WIRES, TB-WIRES, or POTA")
              ELSE r
         ELSE result
    ELSE result

\* the body of the "for line_num, line in enumerate(f, 1)" loop
ValidateLine(result, parts) ==
    IF parts = <<>> THEN result
    ELSE IF parts[1] = T("QSO:") THEN ValidateQsoBranch(result, parts)
    ELSE ValidateHeaderBranch(result, parts)

\* "CHECK REQUIRED FIELDS"
CheckStart(result) ==
    IF ~result.has_start THEN add_error(result, "Missing START-OF-LOG: 3.0") ELSE result

CheckEnd(result) ==
    IF ~result.has_end THEN add_error(result, "Missing END-OF-LOG:") ELSE result

CheckCallsign(result) ==
    IF result.callsign = <<>> THEN add_error(result, "Missing CALLSIGN:") ELSE result

CheckPower(result) ==
    IF ~result.has_power
    THEN [add_error(result, "Missing CATEGORY-POWER:") EXCEPT !.has_valid_power = FALSE]
    ELSE result

CheckOperator(result) ==
    IF ~result.has_operator
    THEN [add_warning(result, "Missing CATEGORY-OPERATOR: (not critical for LA rules)")
             EXCEPT !.has_valid_operator = FALSE]
    ELSE result

\* (mutant) a missing EMAIL: only warned about
CheckEmail_Warning(result) ==
    IF ~result.has_email THEN add_warning(result, "Missing EMAIL:") ELSE result

CheckEmail(result) ==
    IF ~result.has_email THEN add_error(result, "Missing EMAIL:") ELSE result

\* (mutant) a log without QSO lines only warned about
CheckQsoCount_Warning(result) ==
    IF result.qso_count = 0 THEN add_warning(result, "No QSOs found in log") ELSE result

CheckQsoCount(result) ==
    IF result.qso_count = 0 THEN add_error(result, "No QSOs found in log") ELSE result

\* "DETERMINE ACTUAL MODE CATEGORY FROM QSOs"
DetermineLogModeCategory(result) ==
    LET has_phone == \E mode \in {"PH", "FM", "SSB", "LSB", "USB"} :
                        T(mode) \in result.qso_modes
        has_cw_digital == \E mode \in {"CW", "RY", "RTTY", "DIG", "FT8", "FT4"} :
                             T(mode) \in result.qso_modes
    IN  [result EXCEPT !.log_mode_category =
            IF has_phone /\ has_cw_digital THEN "MIXED"
            ELSE IF has_phone THEN "PHONE-ONLY"
            ELSE IF has_cw_digital THEN "CW/DIGITAL-ONLY"
            ELSE "UNKNOWN"]

\* "FINAL VALIDATION", inside "if upload:"; the form_* arguments are None
FinalValidation(result, upload_arg) ==
    IF upload_arg /\ result.invalid_qso_count > 0
    THEN [result EXCEPT !.is_valid = FALSE]
    ELSE result

\* what follows the loop
ValidateFinish(result, upload_arg) ==
    FinalValidation(
        DetermineLogModeCategory(
            CheckQsoCount(CheckEmail(CheckOperator(CheckPower(
                CheckCallsign(CheckEnd(CheckStart(result)))))))),
        upload_arg)

RECURSIVE ValidateLines(_, _)
ValidateLines(result, lines) ==
    IF lines = <<>> THEN result
    ELSE ValidateLines(ValidateLine(result, Head(lines)), Tail(lines))

validate_log_file(upload_arg, lines) ==
    ValidateFinish(ValidateLines(ValidationResult, lines), upload_arg)

(***************************************************************************)
(* The raw log lines the validator is run on                               *)
(***************************************************************************)
RawQso(freq, mode, date, time, qth_sent, qth_rcvd) ==
    QsoLine(T(freq), T(mode), date, time, T("W5XX"), qth_sent, T("K5YY"), qth_rcvd)

ValidateHeaderLines ==
    {<<T("START-OF-LOG:"), T("3.0")>>,
     <<T("END-OF-LOG:")>>,
     <<T("CALLSIGN:"), T("W5XX")>>,
     <<T("CALLSIGN:")>>,
     <<T("EMAIL:"), T("OP@EXAMPLE.ORG")>>,
     <<T("EMAIL:")>>,
     <<T("CONTEST:"), T("TQP")>>,
     <<T("CATEGORY-POWER:"), T("LOW")>>,
     <<T("CATEGORY-POWER:"), T("KW")>>,
     <<T("CATEGORY-OPERATOR:"), T("SINGLE-OP")>>,
     <<T("CATEGORY-STATION:"), T("HOME")>>,
     <<T("CATEGORY-OVERLAY:"), T("WIRES")>>}

ValidateQsoLines ==
    {RawQso("14250", "PH", "2024-04-06", "1500", T("ORLE"), T("TX")),
     RawQso("7100", "CW", "2024-04-07", "0130", T("ORLE"), T("JEFF")),
     RawQso("14250", "PH", "2024-04-06", "1500", T("ORLE"), <<"ORLE", "/", "JEFF">>),
     RawQso("14250", "PH", "2024-04-06", "1500", T("ZZ"), T("TX")),
     <<T("QSO:"), T("14250"), T("PH")>>}

Findings(result) == BagCardinality(result.errors) + BagCardinality(result.warnings)

(***************************************************************************)
(* validate_log_file as a state machine: one step per line, then the       *)
(* checks that follow the loop.  process_all runs it with upload = False.   *)
(***************************************************************************)
ValidateIdle == vres = ValidationResult /\ vseen = {} /\ vpc = "idle"

ValidateStart == vres = ValidationResult /\ vseen = {} /\ vpc = "reading"

ValidateReadHeader ==
    /\ vpc = "reading"
    /\ \E parts \in ValidateHeaderLines :
          /\ Findings(ValidateLine(vres, parts)) <= MaxFindings
          /\ vres' = ValidateLine(vres, parts)
          /\ vseen' = vseen \cup {parts}
    /\ UNCHANGED vpc

ValidateReadQso ==
    /\ vpc = "reading"
    /\ vres.qso_count < MaxQsos
    /\ \E parts \in ValidateQsoLines :
          vres' = ValidateLine(vres, parts)
    /\ UNCHANGED <<vseen, vpc>>

ValidateEndOfFile ==
    /\ vpc = "reading"
    /\ vres' = ValidateFinish(vres, FALSE)
    /\ vpc' = "done"
    /\ UNCHANGED vseen

ValidateNext ==
    /\ ValidateReadHeader \/ ValidateReadQso \/ ValidateEndOfFile
    /\ UNCHANGED <<svars, qvars, pvars, prvars, avars, cvars, gvars>>

(***************************************************************************)
(* One QSO line through the validator: _validate_qso_line on the line and  *)
(* validate_log_file's QSO: branch on a fresh result.                      *)
(***************************************************************************)
QsoFields ==
    {<<f, m, d, t, qs, qr>> :
        f \in {T("14250"), T("14351"), T("KHZ")},
        m \in {T("PH"), T("CW"), T("XX")},
        d \in {T("2024-04-05"), T("2024-04-06"), T("2024-04-07"), T("APR-6")},
        t \in {T("1300"), T("1500"), T("0130"), T("0300"), T("2500")},
        qs \in {T("ORLE"), T("TX"), T("ZZ"), <<"ORLE", "/", "JEFF">>},
        qr \in {T("JEFF"), <<"ORLE", "/", "JEFF">>, T("123")}}

QsoOf(x) == QsoLine(x[1], x[2], x[3][1], x[4][1], T("W5XX"), x[5], T("K5YY"), x[6])

\* frequencies at and next to the edges of each band, and band numbers
QsoFrequencies ==
    {"0", "20", "160", "1799", "1800", "2000", "2001", "3499", "3500",
     "4000", "4001", "6999", "7000", "7300", "7301", "13999", "14000",
     "14350", "14351", "20999", "21000", "21450", "21451", "27999",
     "28000", "29700", "29701", "49999", "50000", "54000", "54001",
     "143999", "144000", "148000", "148001"}

\* callsigns as logs may carry them, well formed or not
QsoCallsigns ==
    {T("W5XX"), <<"K5YY", "/", "M">>, T("AB"), T("WXYZ"), T("W5X!")}

\* lines of 11 tokens, of 12 (with the transmitter number), shorter ones, and
\* lines with each pair of these callsigns and with each of these frequencies
QsoInputLines ==
    {QsoOf(x) : x \in QsoFields}
    \cup {QsoOf(x) \o <<T("0")>> : x \in QsoFields}
    \cup {SubSeq(QsoOf(x), 1, n) : x \in QsoFields, n \in {1, 3, 10}}
    \cup {QsoLine(T("14250"), T("PH"), "2024-04-06", "1500", cs, T("ORLE"),
                  cr, T("JEFF")) : cs \in QsoCallsigns, cr \in QsoCallsigns}
    \cup {QsoLine(T(f), T("CW"), "2024-04-06", "1500", T("W5XX"), T("ORLE"),
                  T("K5YY"), T("JEFF")) : f \in QsoFrequencies}

QsoIdle ==
    qline = <<>> /\ qres = ValidationResult /\ qcode = <<0, "OK">> /\ qpc = "idle"

QsoStart ==
    qline \in QsoInputLines /\ qres = ValidationResult /\ qcode = <<0, "OK">>
    /\ qpc = "ready"

QsoValidate ==
    /\ qpc = "ready"
    /\ qcode' = validate_qso_line(qline)
    /\ qres' = ValidateLine(qres, qline)
    /\ qpc' = "done"
    /\ UNCHANGED qline

QsoNext == QsoValidate /\ UNCHANGED <<svars, vvars, pvars, prvars, avars, cvars, gvars>>

(***************************************************************************)
(* laqp/core/preparation.py                                                *)
(* Lines are given in upper case, as line.strip().upper() leaves them.     *)
(***************************************************************************)
US_PREFIXES ==
    {"K", "W", "N", "AA", "AB", "AC", "AD", "AE", "AF", "AG", "AH", "AI",
     "AJ", "AK", "KA", "KB", "KC", "KD", "KE", "KF", "KG", "KH", "KI",
     "KJ", "KK", "KL", "KM", "KN", "KO", "KP", "KQ", "KR", "KS", "KT",
     "KU", "KV", "KW", "KX", "KY", "KZ", "NA", "NB", "NC", "ND", "NE",
     "NF", "NG", "NH", "NI", "NJ", "NK", "NL", "NM", "NN", "NO", "NP",
     "NQ", "NR", "NS", "NT", "NU", "NV", "NW", "NX", "NY", "NZ", "WA",
     "WB", "WC", "WD", "WE", "WF", "WG", "WH", "WI", "WJ", "WK", "WL",
     "WM", "WN", "WO", "WP", "WQ", "WR", "WS", "WT", "WU", "WV", "WW",
     "WX", "WY", "WZ"}

CANADIAN_PREFIXES ==
    {"VA", "VE", "VY", "VO", "CF", "CG", "CH", "CI", "CJ", "CK", "CY",
     "CZ", "XJ", "XK", "XL", "XM", "XN", "XO"}

ambiguous_dx_qth == {"ON", "PA", "CT", "TN", "LA", "HI", "OK", "CO", "OH"}

\* str() of a band number
str(n) ==
    CASE n = 0 -> "0" [] n = 2 -> "2" [] n = 6 -> "6" [] n = 10 -> "10"
      [] n = 15 -> "15" [] n = 20 -> "20" [] n = 40 -> "40" [] n = 80 -> "80"
      [] n = 160 -> "160"

convert_khz_to_band(freq_khz) ==
    IF freq_khz \in {160, 80, 40, 20, 15, 10, 6, 2} THEN freq_khz
    ELSE freq_to_band(freq_khz)

\* the letters before the first digit, for the callsigns the inputs use
CallPrefix ==
    [c \in {"W5XX", "K5YY", "N5LCC", "AA5B", "VE3XX", "DL1ABC"} |->
        CASE c = "W5XX" -> "W" [] c = "K5YY" -> "K" [] c = "N5LCC" -> "N"
          [] c = "AA5B" -> "AA" [] c = "VE3XX" -> "VE" [] c = "DL1ABC" -> "DL"]

\* the digit of these callsigns comes before any "/"
get_callsign_prefix(call) == CallPrefix[call[1]]

\* prefix[0], for the prefixes above
FirstLetter ==
    [p \in {"W", "K", "N", "AA", "VE", "DL"} |->
        CASE p = "W" -> "W" [] p = "K" -> "K" [] p = "N" -> "N"
          [] p = "AA" -> "A" [] p = "VE" -> "V" [] p = "DL" -> "D"]

is_us_callsign(call) ==
    LET prefix == get_callsign_prefix(call) IN
    IF prefix = "" THEN FALSE
    ELSE IF FirstLetter[prefix] \in {"K", "N", "W"} THEN TRUE
    ELSE prefix \in US_PREFIXES

is_canadian_callsign(call) == get_callsign_prefix(call) \in CANADIAN_PREFIXES

is_dx_callsign(call) == ~(is_us_callsign(call) \/ is_canadian_callsign(call))

is_la_parish(qth) == In(qth, parish_list)

is_non_la_state_province(qth) == In(qth, state_province_list)

\* (mutant) the received side is looked at first
needs_dx_suffix_ReceivedFirst(parts) ==
    IF parts[1] # T("QSO:") \/ Len(parts) < 11 THEN 0
    ELSE IF is_dx_callsign(parts[9]) /\ In(parts[11], ambiguous_dx_qth) THEN 2
    ELSE IF is_dx_callsign(parts[6]) /\ In(parts[8], ambiguous_dx_qth) THEN 1
    ELSE 0

needs_dx_suffix(parts) ==
    IF parts[1] # T("QSO:") \/ Len(parts) < 11 THEN 0
    ELSE LET sent_call == parts[6]
             sent_qth == parts[8]
             rcvd_call == parts[9]
             rcvd_qth == parts[11]
         IN  IF is_dx_callsign(sent_call) /\ In(sent_qth, ambiguous_dx_qth) THEN 1
             ELSE IF is_dx_callsign(rcvd_call) /\ In(rcvd_qth, ambiguous_dx_qth) THEN 2
             ELSE 0

MissingElements ==
    <<T("[ERROR:"), T("Missing"), T("QSO"), T("elements]")>>

\* one reformatted line; the suffix is appended to the token it follows
ReformattedLine(parts, band, sent_call, rcvd_call, qth, change_code) ==
    <<parts[1], T(band), parts[3], parts[4], parts[5], sent_call, parts[7],
      IF change_code = 1 THEN parts[8] \o <<"DX">> ELSE parts[8],
      rcvd_call, parts[10],
      IF change_code \notin {0, 1} THEN qth \o <<"DX">> ELSE qth>>

\* (mutant) only the first received location is kept
reformat_qso_line_FirstCodeOnly(parts, change_code) ==
    IF Len(parts) < 11
    THEN [raised |-> FALSE, lines |-> <<parts \o MissingElements>>]
    ELSE IF ~IsInt(parts[2])
    THEN [raised |-> TRUE, lines |-> <<>>]
    ELSE [raised |-> FALSE,
          lines |-> <<ReformattedLine(parts, str(convert_khz_to_band(int(parts[2]))),
                                      Split(parts[6], "/")[1], Split(parts[9], "/")[1],
                                      Split(parts[11], "/")[1], change_code)>>]

\* the list of lines, or raised when int() raises ValueError
reformat_qso_line(parts, change_code) ==
    IF Len(parts) < 11
    THEN [raised |-> FALSE, lines |-> <<parts \o MissingElements>>]
    ELSE IF ~IsInt(parts[2])
    THEN [raised |-> TRUE, lines |-> <<>>]
    ELSE LET band == str(convert_khz_to_band(int(parts[2])))
             sent_call == Split(parts[6], "/")[1]
             rcvd_call == Split(parts[9], "/")[1]
             rcvd_qth_list == Split(parts[11], "/")
         IN  [raised |-> FALSE,
              lines |-> [i \in 1..Len(rcvd_qth_list) |->
                           ReformattedLine(parts, band, sent_call, rcvd_call,
                                           rcvd_qth_list[i], change_code)]]

\* the loop of determine_location_type: a location type, or the sent
\* parishes when no line decided
RECURSIVE LocationScan(_, _)
LocationScan(qso_lines, sent_parishes) ==
    IF qso_lines = <<>> THEN [decided |-> FALSE, sent_parishes |-> sent_parishes]
    ELSE LET parts == Head(qso_lines) IN
         IF parts[1] # T("QSO:") \/ Len(parts) < 11
         THEN LocationScan(Tail(qso_lines), sent_parishes)
         ELSE IF is_dx_callsign(parts[6])
         THEN [decided |-> TRUE, location_type |-> LOC_DX]
         ELSE IF is_non_la_state_province(parts[8])
         THEN [decided |-> TRUE, location_type |-> LOC_NON_LA]
         ELSE IF is_la_parish(parts[8])
         THEN LocationScan(Tail(qso_lines), sent_parishes \cup {parts[8]})
         ELSE LocationScan(Tail(qso_lines), sent_parishes)

determine_location_type_AnyParish(qso_lines, header_station, header_fixed) ==
    LET scan == LocationScan(qso_lines, {}) IN
    IF scan.decided THEN scan.location_type
    ELSE IF header_fixed THEN LOC_LA_FIXED
    ELSE IF In(header_station, {"MOBILE", "ROVER"}) THEN LOC_LA_ROVER
    ELSE IF Cardinality(scan.sent_parishes) > 0 THEN LOC_LA_ROVER
    ELSE LOC_LA_FIXED

determine_location_type(qso_lines, header_station, header_fixed) ==
    LET scan == LocationScan(qso_lines, {}) IN
    IF scan.decided THEN scan.location_type
    ELSE IF header_fixed THEN LOC_LA_FIXED
    ELSE IF In(header_station, {"MOBILE", "ROVER"}) THEN LOC_LA_ROVER
    ELSE IF Cardinality(scan.sent_parishes) > 1 THEN LOC_LA_ROVER
    ELSE LOC_LA_FIXED

determine_mode_category(qso_lines) ==
    LET modes == {qso_lines[i][3] :
                    i \in {j \in 1..Len(qso_lines) :
                             qso_lines[j][1] = T("QSO:") /\ Len(qso_lines[j]) >= 11}}
        has_cw == T("CW") \in modes
        has_digital == modes \cap {T("DG"), T("RY")} # {}
        has_phone == modes \cap {T("PH"), T("FM")} # {}
        has_cw_digital == has_cw \/ has_digital
    IN  IF has_cw_digital /\ ~has_phone THEN MODE_CW_DIGITAL_ONLY
        ELSE IF has_phone /\ ~has_cw_digital THEN MODE_PHONE_ONLY
        ELSE MODE_MIXED

determine_power_level(header_power) ==
    IF header_power = T("QRP") THEN POWER_QRP
    ELSE IF header_power = T("LOW") THEN POWER_LOW
    ELSE POWER_HIGH

determine_overlay(header_overlay) ==
    IF header_overlay = T("WIRES") THEN OVERLAY_WIRES
    ELSE IF header_overlay = T("TB-WIRES") THEN OVERLAY_TB_WIRES
    ELSE IF header_overlay = T("POTA") THEN OVERLAY_POTA
    ELSE OVERLAY_NONE

\* config.get_category_name, the only function of that name in the repository
get_category_name(location_type, mode_category, is_rover, power_level, overlay) ==
    <<IF location_type \in {0, 1} THEN "nl"
      ELSE IF location_type = 2 THEN "lf" ELSE "lr",
      "_",
      IF mode_category = 0 THEN "ph"
      ELSE IF mode_category = 1 THEN "cw" ELSE "mx",
      "_",
      IF overlay > 0 THEN "ol"
      ELSE IF power_level = 0 THEN "qp"
      ELSE IF power_level = 1 THEN "lo" ELSE "hi">>

\* the global names of preparation.py: its imports, class and function
PreparationGlobals ==
    {"sys", "Path", "List", "Tuple",
     "BAND_RANGES", "LA_PARISHES_FILE", "WVE_ABBREVS_FILE",
     "US_PREFIXES", "CANADIAN_PREFIXES",
     "LOC_DX", "LOC_NON_LA", "LOC_LA_FIXED", "LOC_LA_ROVER",
     "MODE_PHONE_ONLY", "MODE_CW_DIGITAL_ONLY", "MODE_MIXED",
     "POWER_QRP", "POWER_LOW", "POWER_HIGH",
     "OVERLAY_NONE", "OVERLAY_WIRES", "OVERLAY_TB_WIRES", "OVERLAY_POTA",
     "LogPreparation", "prepare_single_log"}

\* list.insert(i, x)
InsertAt(s, i, x) ==
    IF Len(s) <= i THEN Append(s, x)
    ELSE SubSeq(s, 1, i) \o <<x>> \o SubSeq(s, i + 1, Len(s))

\* the locals of prepare_log before its loop
PrepareInit ==
    [callsign |-> <<>>, header_power |-> T("LOW"), header_station |-> T("FIXED"),
     header_overlay |-> <<>>, header_fixed |-> FALSE,
     qso_lines |-> <<>>, prepared_lines |-> <<>>, raised |-> FALSE]

\* the body of prepare_log's loop; nothing more is read once a line raised
PrepareLine(st, parts) ==
    IF st.raised \/ parts = <<>> THEN st
    ELSE IF parts[1] = T("CALLSIGN:")
    THEN [st EXCEPT !.callsign = IF Len(parts) > 1 THEN parts[2] ELSE <<>>]
    ELSE IF parts[1] = T("CATEGORY-POWER:")
    THEN [st EXCEPT !.header_power = IF Len(parts) > 1 THEN parts[2] ELSE T("LOW")]
    ELSE IF parts[1] = T("CATEGORY-STATION:")
    THEN LET header_station == IF Len(parts) > 1 THEN parts[2] ELSE T("FIXED") IN
         [st EXCEPT !.header_station = header_station,
                    !.header_fixed = IF In(header_station, {"FIXED", "PORTABLE"})
                                     THEN TRUE ELSE @]
    ELSE IF parts[1] = T("CATEGORY-OVERLAY:")
    THEN [st EXCEPT !.header_overlay = IF Len(parts) > 1 THEN parts[2] ELSE <<>>]
    ELSE IF parts[1] = T("QSO:")
    THEN LET reformatted == reformat_qso_line(parts, needs_dx_suffix(parts)) IN
         [st EXCEPT !.qso_lines = Append(@, parts),
                    !.prepared_lines = @ \o reformatted.lines,
                    !.raised = reformatted.raised]
    ELSE [st EXCEPT !.prepared_lines = Append(@, parts)]

RECURSIVE PrepareLines(_, _)
PrepareLines(st, lines) ==
    IF lines = <<>> THEN st
    ELSE PrepareLines(PrepareLine(st, Head(lines)), Tail(lines))

\* what follows prepare_log's loop, given its locals: whether it raised, the
\* file it wrote and the dict it returned
PrepareFinish(st) ==
    LET location_type ==
            determine_location_type(st.qso_lines, st.header_station, st.header_fixed)
        is_rover == location_type = LOC_LA_ROVER
        mode_category == determine_mode_category(st.qso_lines)
        power_level == determine_power_level(st.header_power)
        overlay == determine_overlay(st.header_overlay)
        category_name ==
            get_category_name(location_type, mode_category, is_rover,
                              power_level, overlay)
        info == [callsign |-> st.callsign, location_type |-> location_type,
                 is_rover |-> is_rover, mode_category |-> mode_category,
                 power_level |-> power_level, overlay |-> overlay]
    IN  IF st.raised \/ "get_category_name" \notin PreparationGlobals
        THEN [raised |-> TRUE, written |-> FALSE, output |-> <<>>, info |-> info]
        ELSE [raised |-> FALSE, written |-> TRUE,
              output |-> InsertAt(st.prepared_lines, 1,
                                  <<T("TQP-CATEGORY:"), category_name>>),
              info |-> info]

\* prepare_log on a whole file
prepare_log(lines) == PrepareFinish(PrepareLines(PrepareInit, lines))

(***************************************************************************)
(* The validated-log lines prepare_log is run on                           *)
(***************************************************************************)
PrepareHeaderLines ==
    {<<T("START-OF-LOG:"), T("3.0")>>,
     <<T("CALLSIGN:"), T("W5XX")>>,
     <<T("CATEGORY-POWER:"), T("QRP")>>,
     <<T("CATEGORY-OVERLAY:"), T("WIRES")>>,
     <<T("CATEGORY-STATION:"), T("FIXED")>>,
     <<T("CATEGORY-STATION:"), T("PORTABLE")>>,
     <<T("CATEGORY-STATION:"), T("ROVER")>>,
     <<T("CATEGORY-STATION:"), T("MOBILE")>>,
     <<T("CATEGORY-STATION:"), T("HOME")>>,
     <<T("CATEGORY-STATION:")>>}

PrepareQso(mode, call_sent, qth_sent) ==
    QsoLine(T("14250"), T(mode), "2024-04-06", "1500", T(call_sent), T(qth_sent),
            T("K5YY"), T("JEFF"))

PrepareContact(freq, call_sent, qth_sent, call_rcvd, qth_rcvd) ==
    QsoLine(T(freq), T("PH"), "2024-04-06", "1500", T(call_sent), qth_sent,
            T(call_rcvd), qth_rcvd)

PrepareQsoLines ==
    {PrepareQso(m, "W5XX", q) : m \in {"PH", "CW"}, q \in {"ORLE", "JEFF", "TX"}}
    \cup {PrepareQso("PH", "DL1ABC", "ORLE"),
          PrepareQso("FT8", "W5XX", "ORLE"),
          PrepareQso("SSB", "W5XX", "ORLE")}
    \* contacts with two received locations, with ambiguous locations on
    \* either side, and one on a frequency of no band
    \cup {PrepareContact("14250", "W5XX", T("ORLE"), "K5YY", <<"ORLE", "/", "JEFF">>),
          PrepareContact("14250", "DL1ABC", T("ON"), "K5YY", <<"ORLE", "/", "JEFF">>),
          PrepareContact("14250", "W5XX", T("ORLE"), "DL1ABC", T("ON")),
          PrepareContact("14250", "DL1ABC", T("ON"), "DL1ABC", T("ON")),
          PrepareContact("14250", "W5XX", T("ORLE"), "K5YY", T("ON")),
          PrepareContact("14250", "W5XX", T("ORLE"), "DL1ABC", <<"ON", "/", "ORLE">>),
          PrepareContact("14351", "W5XX", T("ORLE"), "K5YY", T("JEFF"))}

(***************************************************************************)
(* prepare_log as a state machine: one step per line, then the category    *)
(* and the writing of the file.                                            *)
(***************************************************************************)
NoOutcome ==
    [raised |-> FALSE, written |-> FALSE, output |-> <<>>,
     info |-> [callsign |-> <<>>, location_type |-> 0, is_rover |-> FALSE,
               mode_category |-> 0, power_level |-> 0, overlay |-> 0]]

PrepareIdle ==
    prst = PrepareInit /\ prseen = {} /\ prout = NoOutcome /\ prpc = "idle"

PrepareStart ==
    prst = PrepareInit /\ prseen = {} /\ prout = NoOutcome /\ prpc = "reading"

\* a line read: the loop goes on, or prepare_log ends with the exception
PrepareStep(parts) ==
    LET st == PrepareLine(prst, parts) IN
    /\ prst' = st
    /\ prpc' = IF st.raised THEN "done" ELSE "reading"
    /\ prout' = IF st.raised THEN PrepareFinish(st) ELSE prout

\* START-OF-LOG: is the first line of a log, and a log carries each header
\* tag once
PrepareReadHeader ==
    /\ prpc = "reading"
    /\ \E parts \in PrepareHeaderLines :
          /\ parts[1] = T("START-OF-LOG:") =>
                prseen = {} /\ prst.qso_lines = <<>>
          /\ \A seen \in prseen : seen[1] # parts[1]
          /\ PrepareStep(parts)
          /\ prseen' = prseen \cup {parts}

PrepareReadQso ==
    /\ prpc = "reading"
    /\ Len(prst.qso_lines) < MaxQsos
    /\ \E parts \in PrepareQsoLines : PrepareStep(parts)
    /\ UNCHANGED prseen

PrepareEndOfFile ==
    /\ prpc = "reading"
    /\ prout' = PrepareFinish(prst)
    /\ prpc' = "done"
    /\ UNCHANGED <<prst, prseen>>

PrepareNext ==
    /\ PrepareReadHeader \/ PrepareReadQso \/ PrepareEndOfFile
    /\ UNCHANGED <<svars, vvars, qvars, pvars, avars, cvars, gvars>>

(***************************************************************************)
(* laqp/core/scoring.py: score_log on a whole file, and score_all_logs     *)
(***************************************************************************)
\* the loop of score_log; an exception ends it
RECURSIVE ScoreLines(_, _)
ScoreLines(result, lines) ==
    IF lines = <<>> \/ result.raised THEN result
    ELSE ScoreLines(ScoreLine(result, Head(lines)), Tail(lines))

score_log(lines) ==
    LET result == ScoreLines(ScoreInitResult, lines) IN
    IF result.raised THEN result ELSE ScoreFinish(result)

\* "Convert sets to counts for storage"; log_file is the loop variable
ScoreEntry(log_file, result) ==
    [log_file |-> log_file, callsign |-> result.callsign,
     category |-> result.category, base_category |-> result.base_category,
     overlay |-> result.overlay, location_type |-> result.location_type,
     mode_category |-> result.mode_category, power_level |-> result.power_level,
     final_score |-> result.final_score, qso_points |-> result.qso_points,
     total_qsos |-> result.total_qsos, valid_qsos |-> result.valid_qsos,
     multipliers |-> result.multipliers,
     parishes_worked |-> Cardinality(result.parishes_worked),
     states_worked |-> Cardinality(result.states_worked),
     provinces_worked |-> Cardinality(result.provinces_worked),
     dx_contacts |-> Cardinality(result.dx_worked),
     parishes_activated |-> result.parishes_activated,
     worked_n5lcc |-> result.worked_n5lcc]

\* list.sort(key=final_score, reverse=True): stable, highest first
RECURSIVE SortByScore(_)
SortByScore(entries) ==
    IF entries = <<>> THEN <<>>
    ELSE LET best == CHOOSE i \in 1..Len(entries) :
                        /\ \A j \in 1..Len(entries) :
                              entries[j].final_score <= entries[i].final_score
                        /\ \A j \in 1..(i - 1) :
                              entries[j].final_score < entries[i].final_score
         IN  <<entries[best]>>
             \o SortByScore(SubSeq(entries, 1, best - 1)
                            \o SubSeq(entries, best + 1, Len(entries)))

CategoriesOf_CategoryOnly(entry) == <<entry.category>>

\* the lists an entry is appended to: its category, and its base category
\* when it has an overlay
CategoriesOf(entry) ==
    IF entry.overlay # "None"
    THEN <<entry.category, entry.base_category>>
    ELSE <<entry.category>>

RECURSIVE CategoryEntries(_, _)
CategoryEntries(entries, category) ==
    IF entries = <<>> THEN <<>>
    ELSE SelectSeq([i \in 1..Len(CategoriesOf(Head(entries))) |->
                      [entry |-> Head(entries),
                       category |-> CategoriesOf(Head(entries))[i]]],
                   LAMBDA x : x.category = category)
         \o CategoryEntries(Tail(entries), category)

CategoryList(entries, category) ==
    LET tagged == CategoryEntries(entries, category) IN
    SortByScore([i \in 1..Len(tagged) |-> tagged[i].entry])

\* score_all_logs on the prepared directory: raised, or both results
score_all_logs(prepared_dir) ==
    LET log_files == Sorted(DOMAIN prepared_dir)
        results == [i \in 1..Len(log_files) |-> score_log(prepared_dir[log_files[i]])]
        entries == [i \in 1..Len(log_files) |-> ScoreEntry(log_files[i], results[i])]
        categories == UNION {{CategoriesOf(entries[i])[k] :
                                k \in 1..Len(CategoriesOf(entries[i]))} :
                             i \in 1..Len(entries)}
    IN  IF \E i \in 1..Len(results) : results[i].raised
        THEN [raised |-> TRUE, all_scores |-> <<>>, category_scores |-> <<>>]
        ELSE [raised |-> FALSE,
              all_scores |-> SortByScore(entries),
              category_scores |-> [c \in categories |-> CategoryList(entries, c)]]

(***************************************************************************)
(* scripts/process_all_logs.py: LogProcessor                               *)
(* A directory is the set of its log files, each named by its number in    *)
(* the catalogue of incoming logs; sorted() orders them by that number.    *)
(***************************************************************************)
LogHeader(power) ==
    <<<<T("START-OF-LOG:"), T("3.0")>>,
      <<T("CALLSIGN:"), T("W5XX")>>,
      <<T("CONTEST:"), T("LA-QSO-PARTY")>>,
      <<T("CATEGORY-OPERATOR:"), T("SINGLE-OP")>>,
      <<T("CATEGORY-POWER:"), T(power)>>>>

EmailLine == <<T("EMAIL:"), T("OP@EXAMPLE.ORG")>>

SentQso(freq, mode, qth_sent, call_rcvd, qth_rcvd) ==
    QsoLine(T(freq), T(mode), "2024-04-06", "1500", T("W5XX"), T(qth_sent),
            call_rcvd, qth_rcvd)

\* the logs that may lie in the incoming directory; an unreadable one is a
\* *.log entry that open() refuses (a directory, a file without permission)
LogCatalogue ==
    <<[readable |-> TRUE,
       lines |-> LogHeader("LOW") \o
                 <<EmailLine,
                   SentQso("14250", "PH", "ORLE", T("K5YY"), T("TX")),
                   <<T("END-OF-LOG:")>>>>],
      [readable |-> TRUE,
       lines |-> LogHeader("HIGH") \o
                 <<EmailLine,
                   <<T("CATEGORY-STATION:"), T("ROVER")>>,
                   <<T("CATEGORY-OVERLAY:"), T("WIRES")>>,
                   SentQso("7100", "CW", "ORLE", <<"K5YY", "/", "M">>, T("JEFF")),
                   SentQso("7100", "CW", "JEFF", T("N5LCC"), T("ORLE")),
                   <<T("END-OF-LOG:")>>>>],
      [readable |-> TRUE,
       lines |-> LogHeader("QRP") \o
                 <<EmailLine,
                   SentQso("14250", "PH", "TX", T("K5YY"), <<"ORLE", "/", "JEFF">>),
                   <<T("END-OF-LOG:")>>>>],
      [readable |-> TRUE,
       lines |-> LogHeader("LOW") \o
                 <<SentQso("14250", "PH", "ORLE", T("K5YY"), T("TX")),
                   <<T("END-OF-LOG:")>>>>],
      [readable |-> TRUE,
       lines |-> LogHeader("LOW") \o
                 <<EmailLine,
                   SentQso("14250", "PH", "ORLE", T("K5YY"), T("TX")),
                   <<T("QSO:"), T("14250"), T("PH")>>,
                   <<T("END-OF-LOG:")>>>>],
      [readable |-> FALSE, lines |-> <<>>]>>

\* validate_single_log: open() raises on an unreadable log
validate_single_log(upload_arg, log) ==
    IF ~log.readable
    THEN [raised |-> TRUE, result |-> ValidationResult]
    ELSE [raised |-> FALSE, result |-> validate_log_file(upload_arg, log.lines)]

\* prepare_single_log on a file of the validated directory
prepare_single_log(log) == prepare_log(log.lines)

StatsInit ==
    [total_incoming |-> 0, validated |-> 0, validation_failed |-> 0,
     prepared |-> 0, scored |-> 0]

\* (mutant) every log that was read is copied to the validated directory
RouteValidated_WhenRead(outcome) == ~outcome.raised

\* validate_logs: the outcome after which the log is copied to the validated
\* directory
RouteValidated(outcome) == ~outcome.raised /\ outcome.result.is_valid

\* validate_logs: the outcome after which the log and its error report are
\* written to the problems directory
RouteProblems(outcome) == ~outcome.raised /\ ~outcome.result.is_valid

PipelineIdle ==
    /\ incoming = {} /\ options = [clean_start |-> TRUE, validate_only |-> FALSE]
    /\ validated = {} /\ problems = <<>> /\ prepared = <<>>
    /\ all_scores = <<>> /\ category_scores = <<>>
    /\ stats = StatsInit /\ queue = <<>> /\ ppc = "idle"

\* after LogProcessor(): ensure_initial_directories has emptied the
\* validated, prepared and problems directories
PipelineStart ==
    /\ incoming \in {S \in SUBSET DOMAIN LogCatalogue : Cardinality(S) <= MaxIncoming}
    /\ options \in [clean_start : BOOLEAN, validate_only : BOOLEAN]
    /\ validated = {} /\ problems = <<>> /\ prepared = <<>>
    /\ all_scores = <<>> /\ category_scores = <<>>
    /\ stats = StatsInit /\ queue = <<>> /\ ppc = "start"

\* process_all up to the loop of validate_logs
BeginValidation ==
    /\ ppc = "start"
    /\ validated' = IF options.clean_start THEN {} ELSE validated
    /\ prepared' = IF options.clean_start THEN <<>> ELSE prepared
    /\ queue' = Sorted(incoming)
    /\ stats' = [stats EXCEPT !.total_incoming = Cardinality(incoming)]
    /\ ppc' = "validate"
    /\ UNCHANGED <<incoming, options, problems, all_scores, category_scores>>

\* one turn of the loop of validate_logs
ValidateOneLog ==
    /\ ppc = "validate"
    /\ queue # <<>>
    /\ LET log_file == Head(queue)
           outcome == validate_single_log(FALSE, LogCatalogue[log_file])
       IN  /\ validated' = IF RouteValidated(outcome)
                           THEN validated \cup {log_file} ELSE validated
           /\ problems' = IF RouteProblems(outcome)
                          THEN (log_file :> outcome.result.errors) @@ problems
                          ELSE problems
           /\ stats' = IF RouteValidated(outcome)
                       THEN [stats EXCEPT !.validated = @ + 1]
                       ELSE [stats EXCEPT !.validation_failed = @ + 1]
    /\ queue' = Tail(queue)
    /\ UNCHANGED <<incoming, options, prepared, all_scores, category_scores, ppc>>

\* the end of validate_logs; process_all stops there or lists the validated
\* directory for prepare_logs
EndValidation ==
    /\ ppc = "validate"
    /\ queue = <<>>
    /\ IF options.validate_only
       THEN ppc' = "done" /\ UNCHANGED queue
       ELSE ppc' = "prepare" /\ queue' = Sorted(validated)
    /\ UNCHANGED <<incoming, options, validated, problems, prepared,
                   all_scores, category_scores, stats>>

\* one turn of the loop of prepare_logs
PrepareOneLog ==
    /\ ppc = "prepare"
    /\ queue # <<>>
    /\ LET log_file == Head(queue)
           outcome == prepare_single_log(LogCatalogue[log_file])
       IN  /\ prepared' = IF outcome.written
                          THEN (log_file :> outcome.output) @@ prepared
                          ELSE prepared
           /\ stats' = IF outcome.raised THEN stats
                       ELSE [stats EXCEPT !.prepared = @ + 1]
    /\ queue' = Tail(queue)
    /\ UNCHANGED <<incoming, options, validated, problems,
                   all_scores, category_scores, ppc>>

\* score_logs, after the last turn of prepare_logs
ScoreLogs ==
    /\ ppc = "prepare"
    /\ queue = <<>>
    /\ LET outcome == score_all_logs(prepared) IN
       /\ all_scores' = outcome.all_scores
       /\ category_scores' = outcome.category_scores
       /\ stats' = IF outcome.raised THEN stats
                   ELSE [stats EXCEPT !.scored = Len(outcome.all_scores)]
    /\ ppc' = "done"
    /\ UNCHANGED <<incoming, options, validated, problems, prepared, queue>>

PipelineNext ==
    /\ \/ BeginValidation
       \/ ValidateOneLog
       \/ EndValidation
       \/ PrepareOneLog
       \/ ScoreLogs
    /\ UNCHANGED <<svars, vvars, qvars, prvars, avars, cvars, gvars>>

(***************************************************************************)
(* laqp/core/individual_results.py: generate_all_individual_results        *)
(***************************************************************************)
\* the placement of a callsign in its category's list: the first entry with
\* that callsign, 1 when there is none
CategoryPlacement(category_logs, callsign) ==
    LET found == {idx \in 1..Len(category_logs) :
                    category_logs[idx].callsign = callsign}
    IN  IF found = {} THEN 1
        ELSE CHOOSE idx \in found : \A other \in found : idx <= other

\* the arguments of generate_individual_result for each log, in the order
\* the files are written
generate_all_individual_results(all_logs, standings) ==
    LET sorted_scores == SortByScore(all_logs) IN
    [overall_idx \in 1..Len(sorted_scores) |->
        LET log_data == sorted_scores[overall_idx]
            category_logs == IF log_data.category \in DOMAIN standings
                             THEN standings[log_data.category] ELSE <<>>
        IN  [callsign |-> log_data.callsign,
             category_short |-> log_data.category,
             overlay |-> log_data.overlay,
             overall_placement |-> overall_idx,
             total_logs |-> Len(sorted_scores),
             category_placement |->
                 CategoryPlacement(category_logs, log_data.callsign),
             category_total |-> Len(category_logs),
             final_score |-> log_data.final_score]]

(***************************************************************************)
(* Aggregation: score_all_logs on a directory of prepared logs, then       *)
(* generate_all_individual_results.  A file of the directory is named by a *)
(* number; sorted() orders the files by it.                                *)
(***************************************************************************)
MaxPrepared == 3

PreparedLog(callsign, category, qsos) ==
    <<<<T("START-OF-LOG:"), T("3.0")>>,
      <<T("CALLSIGN:"), T(callsign)>>,
      category>> \o qsos \o <<<<T("END-OF-LOG:")>>>>

\* the prepared logs of the stations, one per callsign
PreparedCatalogue ==
    {PreparedLog("W5XX", CategoryLine("2", "0", "1", "0"),
                 <<PreparedQso("14250", "PH", "ORLE", "K5YY", "TX")>>),
     PreparedLog("K5YY", CategoryLine("2", "0", "1", "0"),
                 <<PreparedQso("14250", "PH", "ORLE", "K5YY", "TX")>>),
     PreparedLog("N5LCC", CategoryLine("2", "0", "1", "1"),
                 <<PreparedQso("14250", "PH", "ORLE", "K5YY", "TX"),
                   PreparedQso("7100", "PH", "ORLE", "K5YY", "JEFF")>>),
     PreparedLog("AA5B", CategoryLine("2", "0", "2", "3"),
                 <<PreparedQso("14250", "PH", "ORLE", "K5YY", "TX")>>),
     PreparedLog("VE3XX", CategoryLine("1", "2", "1", "0"), <<>>),
     \* a file whose category codes are no numbers: int() raises ValueError
     PreparedLog("DL1ABC", CategoryLine("X", "0", "1", "0"),
                 <<PreparedQso("14250", "PH", "ORLE", "K5YY", "TX")>>)}

AggregateIdle ==
    /\ prepared_logs_dir = <<>> /\ score_data = <<>>
    /\ category_standings = <<>> /\ individual_results = <<>> /\ apc = "idle"

AggregateStart ==
    /\ prepared_logs_dir = <<>> /\ score_data = <<>>
    /\ category_standings = <<>> /\ individual_results = <<>>
    /\ apc = "collect"

\* a station's prepared log lies in the directory under some file name
PutPreparedLog ==
    /\ apc = "collect"
    /\ \E name \in 1..MaxPrepared, log \in PreparedCatalogue :
          /\ name \notin DOMAIN prepared_logs_dir
          /\ \A other \in DOMAIN prepared_logs_dir : prepared_logs_dir[other] # log
          /\ prepared_logs_dir' = (name :> log) @@ prepared_logs_dir
    /\ UNCHANGED <<score_data, category_standings, individual_results, apc>>

ScoreAllLogs ==
    /\ apc = "collect"
    /\ LET outcome == score_all_logs(prepared_logs_dir) IN
       /\ score_data' = outcome.all_scores
       /\ category_standings' = outcome.category_scores
    /\ apc' = "scored"
    /\ UNCHANGED <<prepared_logs_dir, individual_results>>

\* LogProcessor.generate_individual_results: nothing without scores
GenerateIndividualResults ==
    /\ apc = "scored"
    /\ individual_results' =
          IF score_data = <<>> THEN <<>>
          ELSE generate_all_individual_results(score_data, category_standings)
    /\ apc' = "done"
    /\ UNCHANGED <<prepared_logs_dir, score_data, category_standings>>

AggregateNext ==
    /\ PutPreparedLog \/ ScoreAllLogs \/ GenerateIndividualResults
    /\ UNCHANGED <<svars, vvars, qvars, pvars, prvars, cvars, gvars>>

(***************************************************************************)
(* laqp/utils/cabrillo.py: parse_cabrillo_line                             *)
(* The line is given as line.strip().split() leaves it.                    *)
(***************************************************************************)
\* what the call gives: the exception it raised ("None" when it returned)
\* and the value it returned
Returned(value) == [raised |-> "None", value |-> value]
Raised(exception) == [raised |-> exception, value |-> [kind |-> "None"]]

\* parts[0] of an empty list, and parts[k] of a short one, raise IndexError;
\* int() of a non-number raises ValueError; the dict is built key by key
parse_cabrillo_line(parts) ==
    IF parts = <<>> THEN Raised("IndexError")
    ELSE IF parts[1] # T("QSO:") THEN Returned([kind |-> "None"])
    ELSE IF Len(parts) < 2 THEN Raised("IndexError")
    ELSE IF ~IsInt(parts[2]) THEN Raised("ValueError")
    ELSE IF Len(parts) < 11 THEN Raised("IndexError")
    ELSE Returned([kind |-> "dict",
                   freq_khz |-> int(parts[2]), mode |-> parts[3],
                   date |-> parts[4], time |-> parts[5],
                   sent_call |-> parts[6], sent_rst |-> parts[7],
                   sent_qth |-> parts[8], rcvd_call |-> parts[9],
                   rcvd_rst |-> parts[10], rcvd_qth |-> parts[11]])

\* the lines of logs: blank, header, and QSO lines whole, short or wrong
ParserLines == {<<>>} \cup ValidateHeaderLines \cup QsoInputLines

ParserIdle ==
    cline = <<>> /\ cparsed = Returned([kind |-> "None"]) /\ cpc = "idle"

ParserStart ==
    cline \in ParserLines /\ cparsed = Returned([kind |-> "None"])
    /\ cpc = "ready"

ParseLine ==
    /\ cpc = "ready"
    /\ cparsed' = parse_cabrillo_line(cline)
    /\ cpc' = "done"
    /\ UNCHANGED cline

ParserNext == ParseLine /\ UNCHANGED <<svars, vvars, qvars, pvars, prvars, avars, gvars>>

(***************************************************************************)
(* laqp/core/statistics.py: StatisticsGenerator                            *)
(***************************************************************************)
MaxCalls == 3

\* self.parishes after __init__: a ParishActivity per parish
ParishActivity == [sent_qsos |-> 0, rcvd_qsos |-> 0]
NewParishes == [name \in parish_list |-> ParishActivity]

\* the stats dict as generate_statistics starts with
NewStats ==
    [total_logs |-> 0, dx_logs |-> 0, non_la_logs |-> 0, la_fixed_logs |-> 0,
     la_rover_logs |-> 0, category_counts |-> EmptyBag,
     total_qsos |-> 0, cw_qsos |-> 0, phone_qsos |-> 0, digital_qsos |-> 0,
     qsos_160m |-> 0, qsos_80m |-> 0, qsos_40m |-> 0, qsos_20m |-> 0,
     qsos_15m |-> 0, qsos_10m |-> 0, qsos_6m |-> 0, qsos_2m |-> 0,
     parishes_with_activity |-> 0, parishes_sent_from |-> 0,
     parishes_worked |-> 0]

\* f'qsos_{band}m', for the bands that have a key in stats
BandKey ==
    [band \in {"160", "80", "40", "20", "15", "10", "6", "2"} |->
        CASE band = "160" -> "qsos_160m" [] band = "80" -> "qsos_80m"
          [] band = "40" -> "qsos_40m" [] band = "20" -> "qsos_20m"
          [] band = "15" -> "qsos_15m" [] band = "10" -> "qsos_10m"
          [] band = "6" -> "qsos_6m" [] band = "2" -> "qsos_2m"]

\* "text in current_category", the category being the words joined by
\* blanks, for the words the category lines use
WordHolds(word, text) ==
    \/ word = <<text>>
    \/ text = "LA" /\ word = <<"NON-LA">>

CategoryHolds(category, text) ==
    IF text = "LA ROVER"
    THEN \E i \in 1..(Len(category) - 1) :
            category[i] \in {<<"LA">>, <<"NON-LA">>} /\ category[i + 1] = <<"ROVER">>
    ELSE \E i \in 1..Len(category) : WordHolds(category[i], text)

\* the LAQP-CATEGORY: branch
StatisticsCategoryLine(counts, parts) ==
    LET current_category == SubSeq(parts, 2, Len(parts))
        counted == [counts EXCEPT
                      !.category_counts = @ (+) SetToBag({current_category}),
                      !.total_logs = @ + 1]
    IN  IF CategoryHolds(current_category, "DX")
        THEN [counted EXCEPT !.dx_logs = @ + 1]
        ELSE IF CategoryHolds(current_category, "NON-LA")
        THEN [counted EXCEPT !.non_la_logs = @ + 1]
        ELSE IF CategoryHolds(current_category, "LA ROVER")
        THEN [counted EXCEPT !.la_rover_logs = @ + 1]
        ELSE IF CategoryHolds(current_category, "LA")
        THEN [counted EXCEPT !.la_fixed_logs = @ + 1]
        ELSE counted

\* the QSO: branch, on stats and on self.parishes
StatisticsQsoLine(acc, parts) ==
    IF Len(parts) < 11 THEN acc
    ELSE LET band == parts[2]
             mode == parts[3]
             sent_qth == parts[8]
             rcvd_qth == parts[11]
             by_mode ==
                 IF mode = T("CW")
                 THEN [acc.stats EXCEPT !.total_qsos = @ + 1, !.cw_qsos = @ + 1]
                 ELSE IF In(mode, {"PH", "FM"})
                 THEN [acc.stats EXCEPT !.total_qsos = @ + 1, !.phone_qsos = @ + 1]
                 ELSE IF In(mode, {"DG", "RY"})
                 THEN [acc.stats EXCEPT !.total_qsos = @ + 1, !.digital_qsos = @ + 1]
                 ELSE [acc.stats EXCEPT !.total_qsos = @ + 1]
             by_band ==
                 IF In(band, DOMAIN BandKey)
                 THEN [by_mode EXCEPT ![BandKey[band[1]]] = @ + 1]
                 ELSE by_mode
             sent == IF In(sent_qth, parish_list)
                     THEN [acc.parishes EXCEPT ![sent_qth[1]].sent_qsos = @ + 1]
                     ELSE acc.parishes
             rcvd == IF In(rcvd_qth, parish_list)
                     THEN [sent EXCEPT ![rcvd_qth[1]].rcvd_qsos = @ + 1]
                     ELSE sent
         IN  [stats |-> by_band, parishes |-> rcvd]

\* the body of the loop over the lines of a log
StatisticsLine(acc, parts) ==
    IF parts = <<>> THEN acc
    ELSE IF parts[1] = T("LAQP-CATEGORY:")
    THEN [acc EXCEPT !.stats = StatisticsCategoryLine(acc.stats, parts)]
    ELSE IF parts[1] = T("QSO:") THEN StatisticsQsoLine(acc, parts)
    ELSE acc

RECURSIVE StatisticsLines(_, _)
StatisticsLines(acc, lines) ==
    IF lines = <<>> THEN acc
    ELSE StatisticsLines(StatisticsLine(acc, Head(lines)), Tail(lines))

RECURSIVE StatisticsLogs(_, _)
StatisticsLogs(acc, logs) ==
    IF logs = <<>> THEN acc
    ELSE StatisticsLogs(StatisticsLines(acc, Head(logs)), Tail(logs))

\* "Calculate parish statistics", from self.parishes
ParishStatistics(counts, parishes) ==
    [counts EXCEPT
       !.parishes_with_activity =
           @ + Cardinality({n \in DOMAIN parishes :
                              parishes[n].sent_qsos > 0 \/ parishes[n].rcvd_qsos > 0}),
       !.parishes_sent_from =
           @ + Cardinality({n \in DOMAIN parishes : parishes[n].sent_qsos > 0}),
       !.parishes_worked =
           @ + Cardinality({n \in DOMAIN parishes : parishes[n].rcvd_qsos > 0})]

\* generate_statistics on a generator whose self.parishes is given: the stats
\* returned, and self.parishes as it leaves it (which is returned too)
generate_statistics(parishes, log_paths) ==
    LET acc == StatisticsLogs([stats |-> NewStats, parishes |-> parishes],
                              log_paths)
    IN  [stats |-> ParishStatistics(acc.stats, acc.parishes),
         parishes |-> acc.parishes]

\* the prepared logs statistics are made of
StatisticsLog(category, qsos) ==
    <<<<T("START-OF-LOG:"), T("3.0")>>, category>> \o qsos
    \o <<<<T("END-OF-LOG:")>>>>

StatisticsCatalogue ==
    <<StatisticsLog(CategoryLine("2", "0", "1", "0"),
                    <<PreparedQso("20", "PH", "ORLE", "K5YY", "JEFF")>>),
      StatisticsLog(<<T("LAQP-CATEGORY:"), T("LA"), T("ROVER"), T("MIXED")>>,
                    <<PreparedQso("40", "CW", "ORLE", "K5YY", "TX"),
                      PreparedQso("20", "PH", "JEFF", "K5YY", "ORLE"),
                      <<T("QSO:"), T("20"), T("PH")>>>>),
      StatisticsLog(<<T("LAQP-CATEGORY:"), T("NON-LA"), T("PHONE")>>,
                    <<PreparedQso("14250", "FT8", "TX", "K5YY", "ON")>>),
      StatisticsLog(<<T("LAQP-CATEGORY:"), T("DX"), T("PHONE")>>, <<>>),
      StatisticsLog(<<T("LAQP-CATEGORY:"), T("LA"), T("FIXED"), T("CW")>>,
                    <<PreparedQso("80", "RY", "JEFF", "K5YY", "JEFF")>>)>>

\* the lists of logs a call is given: none, one log, or two
StatisticsRuns ==
    {<<>>}
    \cup {<<StatisticsCatalogue[i]>> : i \in 1..Len(StatisticsCatalogue)}
    \cup {<<StatisticsCatalogue[i], StatisticsCatalogue[i + 1]>> :
            i \in 1..(Len(StatisticsCatalogue) - 1)}

StatisticsIdle ==
    /\ self_parishes = NewParishes /\ stat_log_paths = <<>>
    /\ stat_returned = NewStats /\ stat_calls = 0 /\ statpc = "idle"

\* after StatisticsGenerator(parish_file)
StatisticsStart ==
    /\ self_parishes = NewParishes /\ stat_log_paths = <<>>
    /\ stat_returned = NewStats /\ stat_calls = 0 /\ statpc = "made"

\* a call of generate_statistics on the generator
GenerateStatistics ==
    /\ statpc = "made"
    /\ stat_calls < MaxCalls
    /\ \E log_paths \in StatisticsRuns :
          LET result == generate_statistics(self_parishes, log_paths) IN
          /\ stat_returned' = result.stats
          /\ self_parishes' = result.parishes
          /\ stat_log_paths' = log_paths
    /\ stat_calls' = stat_calls + 1
    /\ UNCHANGED statpc

StatisticsNext ==
    GenerateStatistics
    /\ UNCHANGED <<svars, vvars, qvars, pvars, prvars, avars, cvars>>

(***************************************************************************)
(* Specifications                                                          *)
(***************************************************************************)
InitScore == ScoreStart /\ ValidateIdle /\ QsoIdle /\ PipelineIdle /\ PrepareIdle
    /\ AggregateIdle
    /\ ParserIdle
    /\ StatisticsIdle

InitValidate ==
    ScoreIdle /\ ValidateStart /\ QsoIdle /\ PipelineIdle /\ PrepareIdle
    /\ AggregateIdle
    /\ ParserIdle
    /\ StatisticsIdle

InitQso == ScoreIdle /\ ValidateIdle /\ QsoStart /\ PipelineIdle /\ PrepareIdle
    /\ AggregateIdle
    /\ ParserIdle
    /\ StatisticsIdle

InitPipeline ==
    ScoreIdle /\ ValidateIdle /\ QsoIdle /\ PipelineStart /\ PrepareIdle
    /\ AggregateIdle
    /\ ParserIdle
    /\ StatisticsIdle

InitPrepare ==
    ScoreIdle /\ ValidateIdle /\ QsoIdle /\ PipelineIdle /\ PrepareStart
    /\ AggregateIdle
    /\ ParserIdle
    /\ StatisticsIdle

InitAggregate ==
    ScoreIdle /\ ValidateIdle /\ QsoIdle /\ PipelineIdle /\ PrepareIdle
    /\ AggregateStart
    /\ ParserIdle
    /\ StatisticsIdle

InitParser ==
    ScoreIdle /\ ValidateIdle /\ QsoIdle
    /\ PipelineIdle /\ PrepareIdle /\ AggregateIdle
    /\ ParserStart
    /\ StatisticsIdle

InitStatistics ==
    ScoreIdle /\ ValidateIdle /\ QsoIdle
    /\ PipelineIdle /\ PrepareIdle /\ AggregateIdle /\ ParserIdle
    /\ StatisticsStart

SpecScore == InitScore /\ [][ScoreNext]_vars

SpecValidate == InitValidate /\ [][ValidateNext]_vars

SpecQso == InitQso /\ [][QsoNext]_vars

SpecPipeline == InitPipeline /\ [][PipelineNext]_vars

SpecPrepare == InitPrepare /\ [][PrepareNext]_vars

SpecAggregate == InitAggregate /\ [][AggregateNext]_vars

SpecParser == InitParser /\ [][ParserNext]_vars

SpecStatistics == InitStatistics /\ [][StatisticsNext]_vars

(***************************************************************************)
(* Properties of score_log (SpecScore)                                     *)
(***************************************************************************)
\* the contacts score_log scores: QSO lines of at least 11 tokens
ScoredContacts == {i \in 1..Len(slog) : Len(slog[i]) >= 11}

WorkedLocations == {slog[i][11] : i \in ScoredContacts}

SentParishes == {q \in {slog[i][8] : i \in ScoredContacts} : In(q, parish_list)}

\* the band a contact was made on, from a kHz frequency or a band number
ContactBand(parts) ==
    IF int(parts[2]) \in BANDS THEN int(parts[2]) ELSE freq_to_band(int(parts[2]))

ModeClass(mode) ==
    IF In(mode, PHONE_MODES) THEN "Phone"
    ELSE IF In(mode, CW_DIGITAL_MODES) THEN "CW/Digital"
    ELSE "Other"

MultKey(parts) == <<ContactBand(parts), ModeClass(parts[3]), parts[11]>>

\* a worked location is multiplier-eligible for a log of this location-class
MultiplierEligible(location_type, qth) ==
    location_type \in {LOC_DX, LOC_NON_LA} => In(qth, parish_list)

MultiplierKeys ==
    {MultKey(slog[i]) :
        i \in {j \in ScoredContacts :
                  MultiplierEligible(sres.location_type, slog[j][11])}}

ClubBonus == IF sres.worked_n5lcc THEN 100 ELSE 0

\* C1: final_score = qso_points * multipliers, plus 100 exactly once iff some
\* scored contact's received callsign is N5LCC, plus the activation bonus the
\* result reports (parishes_activated * 50) for a Rover log only; with no
\* bonus earned final_score is exactly qso_points * multipliers.
C1_FinalScore ==
    spc = "done" =>
        /\ sres.worked_n5lcc <=> \E i \in ScoredContacts : slog[i][9] = T("N5LCC")
        /\ sres.final_score =
               sres.qso_points * sres.multipliers + ClubBonus
               + (IF sres.location_type = LOC_LA_ROVER
                  THEN sres.parishes_activated * 50 ELSE 0)
        /\ (~sres.worked_n5lcc /\ sres.location_type # LOC_LA_ROVER)
               => sres.final_score = sres.qso_points * sres.multipliers

\* C1 witness: a scored log that worked N5LCC twice and holds the bonus once
C1_Witness ==
    /\ spc = "done"
    /\ Len(slog) = 2
    /\ \A i \in 1..2 : Len(slog[i]) >= 11 /\ slog[i][9] = T("N5LCC")
    /\ sres.multipliers > 0
    /\ sres.final_score = sres.qso_points * sres.multipliers + 100

\* C2: the multiplier count is the number of distinct (band, mode-class,
\* location) keys among the multiplier-eligible contacts of the log.
C2_MultipliersPerBandMode ==
    spc = "done" => sres.multipliers = Cardinality(MultiplierKeys)

\* C3: a Foreign or Regional log counts only worked Local (parish) locations
\* as multipliers; a Local log counts every worked location.
C3_MultiplierScope ==
    spc = "done" =>
        IF sres.location_type \in {LOC_DX, LOC_NON_LA}
        THEN sres.multipliers =
                 Cardinality({q \in WorkedLocations : In(q, parish_list)})
        ELSE sres.multipliers = Cardinality(WorkedLocations)

\* C3 witness: a Regional log that worked a parish and a state, one multiplier
C3_Witness ==
    /\ spc = "done"
    /\ sres.location_type = LOC_NON_LA
    /\ T("ORLE") \in WorkedLocations
    /\ T("TX") \in WorkedLocations
    /\ sres.multipliers = 1

\* C4: a Rover log's activation bonus is (distinct Local sent-locations) * 50;
\* a log of any other location-class gets no activation bonus.
C4_RoverBonus ==
    spc = "done" =>
        LET bonus == sres.final_score - sres.qso_points * sres.multipliers - ClubBonus
        IN  IF sres.location_type = LOC_LA_ROVER
            THEN bonus = Cardinality(SentParishes) * 50
            ELSE bonus = 0

\* C5: extending the log by a contact with the band, mode class and received
\* location of a contact already in it leaves the multiplier count unchanged.
C5_DuplicateIdempotent ==
    spc = "reading" =>
        \A parts \in ScoreQsoLines :
            (/\ Len(parts) >= 11
             /\ IsInt(parts[2])
             /\ \E i \in ScoredContacts :
                   IsInt(slog[i][2]) /\ MultKey(slog[i]) = MultKey(parts))
            => ScoreFinish(ScoreLine(sres, parts)).multipliers
                   = ScoreFinish(sres).multipliers

\* C5 witness: a scored log of two contacts with one key and one multiplier
C5_Witness ==
    /\ spc = "done"
    /\ ScoredContacts = {1, 2}
    /\ MultKey(slog[1]) = MultKey(slog[2])
    /\ sres.multipliers = 1

(***************************************************************************)
(* Properties of validate_log_file (SpecValidate)                          *)
(***************************************************************************)
HeaderLinesOf(tag) == {l \in vseen : l[1] = T(tag)}

\* the log has a line of this tag / one that carries a value
HasHeader(tag) == HeaderLinesOf(tag) # {}
Declares(tag) == \E l \in HeaderLinesOf(tag) : Len(l) >= 2

DeclaresPowerClass ==
    \E l \in HeaderLinesOf("CATEGORY-POWER:") :
        Len(l) >= 2 /\ In(l[2], {"QRP", "LOW", "HIGH"})

SomeContactError == vres.invalid_qso_count > 0

\* C6 as claimed: with at least one contact, the log is invalid iff a contact
\* produced an error or one of callsign, power class (QRP/LOW/HIGH),
\* start-of-log, end-of-log is missing.
C6_InvalidIffRequiredMissing ==
    (vpc = "done" /\ vres.qso_count > 0) =>
        (~vres.is_valid <=>
            \/ SomeContactError
            \/ ~Declares("CALLSIGN:")
            \/ ~DeclaresPowerClass
            \/ ~HasHeader("START-OF-LOG:")
            \/ ~HasHeader("END-OF-LOG:"))

\* C6 (amended): with at least one contact, the log is invalid iff a contact
\* produced an error, or the start or end marker is missing, or no CALLSIGN:,
\* CATEGORY-POWER: or EMAIL: line carries a value, or there is a CALLSIGN:
\* line without a value, a CATEGORY-POWER: value other than QRP/LOW/HIGH, or
\* a CONTEST: line that does not name LA-QSO-PARTY; a missing operator,
\* station or overlay declaration never makes the log invalid.
C6_InvalidIff ==
    (vpc = "done" /\ vres.qso_count > 0) =>
        (~vres.is_valid <=>
            \/ SomeContactError
            \/ ~HasHeader("START-OF-LOG:")
            \/ ~HasHeader("END-OF-LOG:")
            \/ ~Declares("CALLSIGN:")
            \/ ~Declares("CATEGORY-POWER:")
            \/ ~Declares("EMAIL:")
            \/ \E l \in HeaderLinesOf("CALLSIGN:") : Len(l) < 2
            \/ \E l \in HeaderLinesOf("CATEGORY-POWER:") :
                  Len(l) >= 2 /\ ~In(l[2], {"QRP", "LOW", "HIGH"})
            \/ \E l \in HeaderLinesOf("CONTEST:") :
                  Len(l) < 2 \/ l[2] # T("LA-QSO-PARTY"))

\* C6 witness: a log with contacts and without operator, station and overlay
\* declarations that is judged valid
C6_Witness ==
    /\ vpc = "done"
    /\ vres.qso_count > 0
    /\ vres.is_valid
    /\ ~HasHeader("CATEGORY-OPERATOR:")
    /\ ~HasHeader("CATEGORY-STATION:")
    /\ ~HasHeader("CATEGORY-OVERLAY:")

(***************************************************************************)
(* Properties of _validate_qso_line (SpecQso)                              *)
(***************************************************************************)
TooShortMsg == "QSO line too short (need at least 11 fields)"

Instant(d, t) == <<d[1], d[2], d[3], t[1], t[2]>>

RECURSIVE LexLE(_, _)
LexLE(a, b) ==
    IF a = <<>> THEN TRUE
    ELSE IF Head(a) # Head(b) THEN Head(a) < Head(b)
    ELSE LexLE(Tail(a), Tail(b))

InContestWindow(d, t) ==
    /\ LexLE(Instant(CONTEST_START_DAY1, CONTEST_START_TIME), Instant(d, t))
    /\ LexLE(Instant(d, t), Instant(CONTEST_END_DAY1, CONTEST_END_TIME))

\* C10: a QSO line that passes the field-count, frequency, mode and date
\* checks, with a well-formed HHMM time, whose date and time fall outside the
\* contest's start and end instants is reported with a BadTime error.
C10_OutsideWindowIsBadTime ==
    (/\ qpc = "done"
     /\ Len(qline) >= 11
     /\ ValidateFrequency(qline[2])[1] = 0
     /\ ValidateMode(qline[3])[1] = 0
     /\ ValidateDate(qline[4])[1] = 0
     /\ IsTime(qline[5])
     /\ ~InContestWindow(DateVal[qline[4][1]], TimeVal[qline[5][1]]))
    => (qcode[1] = 4 /\ ~qres.is_valid)

(***************************************************************************)
(* Properties of LogProcessor.process_all (SpecPipeline)                   *)
(***************************************************************************)
\* the outcome of validating an incoming log
Verdict(log_file) ==
    LET outcome == validate_single_log(FALSE, LogCatalogue[log_file]) IN
    IF outcome.raised THEN "raised"
    ELSE IF outcome.result.is_valid THEN "valid" ELSE "invalid"

\* the logs validate_logs has visited
Visited ==
    IF ppc \in {"idle", "start"} THEN {}
    ELSE IF ppc = "validate"
    THEN incoming \ {queue[i] : i \in 1..Len(queue)}
    ELSE incoming

ScoredLogs == {all_scores[i].log_file : i \in 1..Len(all_scores)}

\* prepared only if valid, scored only if prepared
StagesInOrder ==
    /\ validated \subseteq {f \in Visited : Verdict(f) = "valid"}
    /\ DOMAIN prepared \subseteq validated
    /\ ScoredLogs \subseteq DOMAIN prepared

\* no exception leaves validate_logs: every incoming log gets visited and
\* counted as validated or as failed
ValidationCompletes ==
    /\ stats.validated + stats.validation_failed = Cardinality(Visited)
    /\ ppc \in {"prepare", "done"} => Visited = incoming

\* C7 as claimed: a log is prepared only if valid and scored only if
\* prepared; every log whose verdict is invalid or whose validation raised
\* is in the problems directory, and no exception leaves the validation.
C7_RejectedToProblems ==
    /\ StagesInOrder
    /\ ValidationCompletes
    /\ \A f \in Visited :
          Verdict(f) \in {"invalid", "raised"} => f \in DOMAIN problems

\* C7 (amended): a log is prepared only if valid and scored only if
\* prepared; a log whose verdict is invalid is copied to the problems
\* directory with its error report; a log whose validation raised is only
\* counted as failed and is in none of the validated, problems, prepared and
\* scored sets; no exception leaves the validation.
C7_InvalidToProblems ==
    /\ StagesInOrder
    /\ ValidationCompletes
    /\ \A f \in Visited :
          /\ Verdict(f) = "invalid" =>
                /\ f \in DOMAIN problems
                /\ problems[f] = validate_log_file(FALSE, LogCatalogue[f].lines).errors
          /\ Verdict(f) # "invalid" => f \notin DOMAIN problems
          /\ Verdict(f) = "raised" =>
                f \notin validated \cup DOMAIN prepared \cup ScoredLogs
    /\ stats.validation_failed =
          Cardinality({f \in Visited : Verdict(f) \in {"invalid", "raised"}})

\* C7 witness: a finished run over a valid log, an invalid one and one whose
\* validation raised
C7_Witness ==
    /\ ppc = "done"
    /\ ~options.validate_only
    /\ \E f \in validated : Verdict(f) = "valid"
    /\ \E f \in DOMAIN problems : Verdict(f) = "invalid"
    /\ \E f \in incoming : Verdict(f) = "raised"

\* C8: for every valid log, once prepare_logs and score_logs have run, the
\* prepared log exists and the location type, mode category, power level
\* and overlay score_log reads from it are the ones prepare_log derived.
C8_CategoryRoundTrip ==
    (ppc = "done" /\ ~options.validate_only) =>
        \A f \in validated :
            LET derived == prepare_single_log(LogCatalogue[f]).info IN
            /\ f \in DOMAIN prepared
            /\ LET read == score_log(prepared[f]) IN
               /\ read.location_type = derived.location_type
               /\ read.mode_category = derived.mode_category
               /\ read.power_level = derived.power_level
               /\ read.overlay = get_overlay_name(derived.overlay)

(***************************************************************************)
(* Characters of the strings the properties look into                      *)
(***************************************************************************)
Digits == {"0", "1", "2", "3", "4", "5", "6", "7", "8", "9"}

Letters ==
    {"A", "B", "C", "D", "E", "F", "G", "H", "I", "J", "K", "L", "M",
     "N", "O", "P", "Q", "R", "S", "T", "U", "V", "W", "X", "Y", "Z"}

AtomChars ==
    [a \in {"W5XX", "K5YY", "AB", "WXYZ", "W5X!", "M", "/"} |->
        CASE a = "W5XX" -> <<"W", "5", "X", "X">>
          [] a = "K5YY" -> <<"K", "5", "Y", "Y">>
          [] a = "AB" -> <<"A", "B">>
          [] a = "WXYZ" -> <<"W", "X", "Y", "Z">>
          [] a = "W5X!" -> <<"W", "5", "X", "!">>
          [] a = "M" -> <<"M">>
          [] a = "/" -> <<"/">>]

\* the characters of a token
RECURSIVE Chars(_)
Chars(tok) ==
    IF tok = <<>> THEN <<>> ELSE AtomChars[Head(tok)] \o Chars(Tail(tok))

\* shorter than 3 characters, without a digit, or with a character other
\* than letters, digits and "/"
MalformedCallsign(call) ==
    LET chars == Chars(call) IN
    \/ Len(chars) < 3
    \/ \A i \in 1..Len(chars) : chars[i] \notin Digits
    \/ \E i \in 1..Len(chars) : chars[i] \notin Letters \cup Digits \cup {"/"}

\* the line passes the field-count, frequency, mode, date and time checks
PassesUpToTime(parts) ==
    /\ Len(parts) >= 11
    /\ ValidateFrequency(parts[2])[1] = 0
    /\ ValidateMode(parts[3])[1] = 0
    /\ ValidateDate(parts[4])[1] = 0
    /\ ValidateTime(parts[4], parts[5])[1] = 0

\* C11: a QSO line that passes the earlier checks and whose sent or
\* received callsign is shorter than 3 characters, has no digit, or has a
\* character other than letters, digits and "/" is reported with a
\* BadCallsign error (code 5) and makes the log invalid.
C11_MalformedCallsignRejected ==
    (/\ qpc = "done"
     /\ PassesUpToTime(qline)
     /\ \A i \in {6, 9} : qline[i][1] \in DOMAIN AtomChars
     /\ MalformedCallsign(qline[6]) \/ MalformedCallsign(qline[9]))
    => (qcode[1] = 5 /\ ~qres.is_valid)

\* the band whose inclusive range holds the frequency, if any
BandsHolding(freq) ==
    {b \in BANDS : BAND_RANGES[b][1] <= freq /\ freq <= BAND_RANGES[b][2]}

\* C12: for a QSO line of at least 11 tokens with an integer frequency f:
\* if f lies in the inclusive range of a band, each band derivation
\* (config.freq_to_band, the scorer's, the normalizer's) returns that band
\* and the validator raises no frequency error; if f lies outside all eight
\* ranges, the validator rejects the line with the frequency error (code 1),
\* counts it invalid and the log is invalid.
C12_BandDerivation ==
    (qpc = "done" /\ Len(qline) >= 11 /\ IsInt(qline[2])) =>
        LET f == int(qline[2]) IN
        /\ \A b \in BandsHolding(f) :
              /\ freq_to_band(f) = b
              /\ score_freq_to_band(f) = b
              /\ convert_khz_to_band(f) = b
              /\ qcode[1] # 1
        /\ BandsHolding(f) = {} =>
              /\ qcode[1] = 1
              /\ qres.invalid_qso_count = 1
              /\ ~qres.is_valid

\* C12 witness: a line at the upper edge of the 20 m range, accepted
C12_Witness ==
    /\ qpc = "done"
    /\ Len(qline) >= 11
    /\ qline[2] = T("14350")
    /\ freq_to_band(int(qline[2])) = 20
    /\ qcode = <<0, "OK">>

MultiParishMsg == "Multi-parish QTH detected (will be split during processing)"

\* C13: a QSO line that passes the field-count, frequency, mode, date, time
\* and callsign checks and whose sent or received location holds a "/" gets
\* code 8 and one warning, no error; it is not counted as an invalid contact
\* and leaves the result valid.
C13_MultiLocationWarning ==
    (/\ qpc = "done"
     /\ PassesUpToTime(qline)
     /\ ValidateCallsigns(qline[6], qline[9])[1] = 0
     /\ HasAtom(qline[8], "/") \/ HasAtom(qline[11], "/"))
    => /\ qcode = <<8, MultiParishMsg>>
       /\ qres.warnings = SetToBag({MultiParishMsg})
       /\ qres.errors = EmptyBag
       /\ qres.qso_count = 1
       /\ qres.invalid_qso_count = 0
       /\ qres.is_valid

\* C13 witness: a line sent from a parish line, the received location unknown
C13_Witness ==
    /\ qpc = "done"
    /\ Len(qline) >= 11
    /\ qline[8] = <<"ORLE", "/", "JEFF">>
    /\ qline[11] = T("123")
    /\ qcode[1] = 8
    /\ qres.is_valid

\* C14: a log without QSO lines is judged invalid whatever its headers are,
\* with the error "No QSOs found in log".
C14_NoContactsInvalid ==
    (vpc = "done" /\ vres.qso_count = 0) =>
        /\ ~vres.is_valid
        /\ BagIn("No QSOs found in log", vres.errors)

\* C14 witness: a log with every required header, correct, and no QSO line,
\* whose only error is the missing contacts
C14_Witness ==
    /\ vpc = "done"
    /\ vres.qso_count = 0
    /\ HasHeader("START-OF-LOG:") /\ HasHeader("END-OF-LOG:")
    /\ Declares("CALLSIGN:") /\ DeclaresPowerClass /\ Declares("EMAIL:")
    /\ vres.errors = SetToBag({"No QSOs found in log"})
    /\ ~vres.is_valid

\* the messages _validate_qso_line returns with a code that counts as an
\* error; "Missing callsign" is left to the CALLSIGN: header, as no token of
\* line.split() is empty and the QSO check of that name never fires
PerContactMessages ==
    {"QSO line too short (need at least 11 fields)",
     "Invalid frequency - not an integer",
     "Invalid frequency (not in a valid contest band)",
     "Invalid mode",
     "Invalid date format (use YYYY-MM-DD)", "Date outside contest period",
     "Invalid time format (use HHMM)",
     "Missing RST", "Missing QTH exchange",
     "Invalid QTH-sent (not a valid parish or state/province)",
     "Invalid QTH-rcvd (not a valid parish or state/province)"}

RECURSIVE SumCopies(_, _)
SumCopies(bag, S) ==
    IF S = {} THEN 0
    ELSE LET m == CHOOSE x \in S : TRUE
         IN  CopiesIn(m, bag) + SumCopies(bag, S \ {m})

PerContactErrors(result) ==
    SumCopies(result.errors, BagToSet(result.errors) \cap PerContactMessages)

\* the error entry of each required header the log lacks
MissingHeaderMessages ==
    (IF ~HasHeader("START-OF-LOG:") THEN {"Missing START-OF-LOG: 3.0"} ELSE {})
    \cup (IF ~HasHeader("END-OF-LOG:") THEN {"Missing END-OF-LOG:"} ELSE {})
    \cup (IF ~Declares("CALLSIGN:") THEN {"Missing CALLSIGN:"} ELSE {})
    \cup (IF ~Declares("CATEGORY-POWER:") THEN {"Missing CATEGORY-POWER:"} ELSE {})
    \cup (IF ~Declares("EMAIL:") THEN {"Missing EMAIL:"} ELSE {})

\* one more QSO line read: one error entry and one invalid contact more when
\* the line fails a check of _validate_qso_line, none otherwise
OneEntryIfFailed(result, parts) ==
    LET after == ValidateLine(result, parts)
        failed == validate_qso_line(parts)[1] \notin {0, 8}
        more == IF failed THEN 1 ELSE 0
    IN  /\ after.qso_count = result.qso_count + 1
        /\ after.invalid_qso_count = result.invalid_qso_count + more
        /\ BagCardinality(after.errors) = BagCardinality(result.errors) + more

\* C15: whatever was read before, a QSO line that fails a check adds exactly
\* one entry to the errors list and one to invalid_qso_count; at every point
\* the per-contact entries are as many as invalid_qso_count, which never
\* exceeds qso_count; when validate_log_file returns, each missing required
\* header has its own entry, exactly one, beside them.
C15_EveryProblemReported ==
    /\ vpc = "reading" => \A parts \in ValidateQsoLines : OneEntryIfFailed(vres, parts)
    /\ PerContactErrors(vres) = vres.invalid_qso_count
    /\ vres.invalid_qso_count <= vres.qso_count
    /\ vpc = "done" =>
          /\ \A m \in MissingHeaderMessages : CopiesIn(m, vres.errors) = 1
          /\ BagCardinality(vres.errors) >=
                vres.invalid_qso_count + Cardinality(MissingHeaderMessages)

\* C15 witness: a rejected log with two failed QSO lines of different kinds
\* and two missing required headers, all four reported
C15_Witness ==
    /\ vpc = "done"
    /\ vres.qso_count = 2
    /\ vres.invalid_qso_count = 2
    /\ BagIn("QSO line too short (need at least 11 fields)", vres.errors)
    /\ BagIn("Invalid QTH-sent (not a valid parish or state/province)", vres.errors)
    /\ BagIn("Missing END-OF-LOG:", vres.errors)
    /\ BagIn("Missing EMAIL:", vres.errors)
    /\ BagCardinality(vres.errors) = 4

(***************************************************************************)
(* C16: the location class of a prepared log                               *)
(***************************************************************************)
\* the contacts of the log prepare_log has read
Contacts == {prst.qso_lines[i] : i \in 1..Len(prst.qso_lines)}

SomeForeignSender == \E c \in Contacts : is_dx_callsign(c[6])
SomeRegionalSent == \E c \in Contacts : is_non_la_state_province(c[8])

\* C16: once prepare_log has derived the categories, the location type is
\* LOC_DX if any contact has a foreign sending callsign, otherwise LOC_NON_LA
\* if any contact's sent location is a state or province, otherwise one of the
\* two Louisiana types: whatever the order of the contacts.
C16_LocationClassBySet ==
    prpc = "done" =>
        IF SomeForeignSender THEN prout.info.location_type = LOC_DX
        ELSE IF SomeRegionalSent THEN prout.info.location_type = LOC_NON_LA
        ELSE prout.info.location_type \in {LOC_LA_FIXED, LOC_LA_ROVER}

(***************************************************************************)
(* C17: the mode class of a prepared log                                   *)
(***************************************************************************)
\* the log read so far is one the validator accepts as far as modes go: it has
\* a contact and every contact's mode is a valid mode
ValidModesOnly ==
    Contacts # {} /\ \A c \in Contacts : In(c[3], VALID_MODES)

\* C17: for a log that passed validation, once prepare_log has derived the
\* categories, the mode category is MODE_CW_DIGITAL_ONLY when every contact's
\* mode is a CW/Digital mode, MODE_PHONE_ONLY when every contact's mode is a
\* Phone mode, and MODE_MIXED only when contacts of both sets are present.
C17_ModeClassBySets ==
    (prpc = "done" /\ ValidModesOnly) =>
        /\ (\A c \in Contacts : In(c[3], CW_DIGITAL_MODES))
              => prout.info.mode_category = MODE_CW_DIGITAL_ONLY
        /\ (\A c \in Contacts : In(c[3], PHONE_MODES))
              => prout.info.mode_category = MODE_PHONE_ONLY
        /\ prout.info.mode_category = MODE_MIXED
              => /\ \E c \in Contacts : In(c[3], CW_DIGITAL_MODES)
                 /\ \E c \in Contacts : In(c[3], PHONE_MODES)

(***************************************************************************)
(* C18: fixed or rover, for a Louisiana log                                *)
(***************************************************************************)
\* no contact makes the log Foreign or Regional
LocalLog == ~SomeForeignSender /\ ~SomeRegionalSent

StationLines == {h \in prseen : h[1] = T("CATEGORY-STATION:")}

DeclaresStation(values) ==
    \E h \in StationLines : Len(h) > 1 /\ In(h[2], values)

\* the distinct parishes the contacts were sent from
ContactParishes == {c[8] : c \in {k \in Contacts : is_la_parish(k[8])}}

C18_DeclaredRover ==
    /\ prpc = "done" /\ LocalLog /\ DeclaresStation({"ROVER"})
    /\ Cardinality(ContactParishes) = 1
    /\ prout.info.location_type = LOC_LA_ROVER

(***************************************************************************)
(* C19: ranking and the order of the logs                                  *)
(***************************************************************************)
\* the same logs under the file names in another order
Rearranged(dir, p) == [name \in DOMAIN dir |-> dir[p[name]]]

\* score_all_logs and generate_all_individual_results on a directory
ResultsOf(dir) ==
    LET outcome == score_all_logs(dir) IN
    generate_all_individual_results(outcome.all_scores, outcome.category_scores)

\* the overall and the category placement written for a callsign
RanksOf(results, callsign) ==
    LET i == CHOOSE k \in 1..Len(results) : results[k].callsign = callsign
    IN  <<results[i].overall_placement, results[i].category_placement>>

\* C19: once the individual results are generated, every log has the overall
\* placement and the category placement it would have had with the same logs
\* presented in any other order.
C19_RanksIgnoreOrder ==
    apc = "done" =>
        \A p \in Permutations(DOMAIN prepared_logs_dir) :
            \A i \in 1..Len(individual_results) :
                RanksOf(ResultsOf(Rearranged(prepared_logs_dir, p)),
                        individual_results[i].callsign)
                = <<individual_results[i].overall_placement,
                    individual_results[i].category_placement>>

(***************************************************************************)
(* C20: the category groups of score_all_logs                              *)
(***************************************************************************)
\* what a prepared log of the directory says of itself
LogCallsign(log) == log[2][2]
LogCategoryCodes(log) == Split(log[3][2], ",")
LogOverlay(log) == int(LogCategoryCodes(log)[4])

LogBaseCategory(log) ==
    get_base_category(int(LogCategoryCodes(log)[1]), int(LogCategoryCodes(log)[2]),
                      int(LogCategoryCodes(log)[3]))

LogOverlayCategory(log) ==
    get_category_short_name(int(LogCategoryCodes(log)[1]),
                            int(LogCategoryCodes(log)[2]),
                            int(LogCategoryCodes(log)[3]), LogOverlay(log))

\* how often a callsign stands in a category's list
TimesInGroup(category, callsign) ==
    Cardinality({i \in 1..Len(category_standings[category]) :
                    category_standings[category][i].callsign = callsign})

GroupsOf(callsign) ==
    {c \in DOMAIN category_standings : TimesInGroup(c, callsign) > 0}

HighestFirst(entries) ==
    \A i, j \in 1..Len(entries) :
        i < j => entries[i].final_score >= entries[j].final_score

\* C20: after score_all_logs has returned, every log of the directory with
\* an overlay stands once in each of exactly two groups, its base category
\* and its overlay category, every log without overlay stands once in
\* exactly one group, its base category, and every group is sorted by final
\* score, highest first.
C20_CategoryGroups ==
    (apc \in {"scored", "done"} /\ ~score_all_logs(prepared_logs_dir).raised) =>
        /\ \A name \in DOMAIN prepared_logs_dir :
              LET log == prepared_logs_dir[name]
                  groups == GroupsOf(LogCallsign(log))
              IN  /\ \A c \in groups : TimesInGroup(c, LogCallsign(log)) = 1
                  /\ IF LogOverlay(log) # OVERLAY_NONE
                     THEN /\ groups = {LogBaseCategory(log), LogOverlayCategory(log)}
                          /\ Cardinality(groups) = 2
                     ELSE groups = {LogBaseCategory(log)}
        /\ \A c \in DOMAIN category_standings : HighestFirst(category_standings[c])

\* C20 witness: a log with the WIRES overlay stands in lf_ph_ol and in
\* lf_ph_lo, where a log without overlay stands too
C20_Witness ==
    /\ apc = "scored"
    /\ GroupsOf(T("N5LCC")) = {<<"lf", "ph", "lo">>, <<"lf", "ph", "ol">>}
    /\ GroupsOf(T("W5XX")) = {<<"lf", "ph", "lo">>}
    /\ Len(category_standings[<<"lf", "ph", "lo">>]) = 2

(***************************************************************************)
(* C21: a log that fails does not take the others with it                  *)
(***************************************************************************)
\* C21: after the scoring step, every log of the directory that score_log
\* scores without exception appears in the scores, whatever happens to the
\* other logs of the directory.
C21_FailureIsolated ==
    apc \in {"scored", "done"} =>
        \A name \in DOMAIN prepared_logs_dir :
            ~score_log(prepared_logs_dir[name]).raised =>
                \E i \in 1..Len(score_data) :
                    score_data[i].callsign = LogCallsign(prepared_logs_dir[name])

(***************************************************************************)
(* C22: prepare_log on a validated log                                     *)
(***************************************************************************)
\* C22: when the pipeline is done, every log of the validated directory has
\* its prepared log in the prepared directory, and the count of prepared
\* logs equals the count of validated logs.
C22_ValidatedArePrepared ==
    (ppc = "done" /\ ~options.validate_only) =>
        /\ DOMAIN prepared = validated
        /\ stats.prepared = stats.validated

(***************************************************************************)
(* C23: the first failing check names the error                            *)
(***************************************************************************)
\* a location without '/' that neither reference list knows
UnknownLocation(qth) ==
    ~HasAtom(qth, "/") /\ ~In(qth, parish_list \cup state_province_list)

\* the first check of the order field count, frequency, mode, date, time
\* that the line fails, 0 when it passes them all
FirstOfEarlyChecks(parts) ==
    IF Len(parts) < 11 THEN -1
    ELSE IF ValidateFrequency(parts[2])[1] # 0 THEN 1
    ELSE IF ValidateMode(parts[3])[1] # 0 THEN 2
    ELSE IF ValidateDate(parts[4])[1] # 0 THEN 3
    ELSE IF ValidateTime(parts[4], parts[5])[1] # 0 THEN 4
    ELSE 0

\* the line passes every check before the locations: the early ones, the
\* contest window and the form of the callsigns
PassesUpToCallsigns(parts) ==
    /\ PassesUpToTime(parts)
    /\ InContestWindow(DateVal[parts[4][1]], TimeVal[parts[5][1]])
    /\ ~MalformedCallsign(parts[6]) /\ ~MalformedCallsign(parts[9])

\* C23: the code reported for a QSO line is that of the first failing check
\* in the order field count, frequency, mode, date, time, callsigns,
\* locations, multi-location warning: a line failing an early check is
\* reported with that check's code, and a line passing all checks before the
\* locations is reported as a bad location (7) when a location without '/' is
\* unknown, also when the other location holds a '/', as the multi-location
\* warning (8) only when no location is bad, and as OK otherwise.
C23_FirstFailingCheck ==
    qpc = "done" =>
        /\ FirstOfEarlyChecks(qline) # 0 => qcode[1] = FirstOfEarlyChecks(qline)
        /\ PassesUpToCallsigns(qline) =>
              qcode[1] = IF UnknownLocation(qline[8]) \/ UnknownLocation(qline[11])
                         THEN 7
                         ELSE IF HasAtom(qline[8], "/") \/ HasAtom(qline[11], "/")
                         THEN 8
                         ELSE 0

(***************************************************************************)
(* C24: one prepared contact per received location                         *)
(***************************************************************************)
IsContactLine(line) == line # <<>> /\ line[1] = T("QSO:")

\* the contacts prepare_log has emitted so far
PreparedContacts == SelectSeq(prst.prepared_lines, IsContactLine)

\* the codes of a location CODE/CODE/...: every other atom
CodesOf(qth) == [j \in 1..((Len(qth) + 1) \div 2) |-> <<qth[2 * j - 1]>>]

\* a location without the DX marker it may have been given
WithoutMarker(qth) ==
    IF Len(qth) > 1 /\ qth[Len(qth)] = "DX" THEN SubSeq(qth, 1, Len(qth) - 1)
    ELSE qth

\* the number of codes of the first k input contacts
RECURSIVE CodesBefore(_)
CodesBefore(k) ==
    IF k = 0 THEN 0
    ELSE CodesBefore(k - 1) + Len(CodesOf(prst.qso_lines[k][11]))

\* C24: at every point of prepare_log's loop, the contacts emitted are, for
\* each input contact in input order, one contact per code of its received
\* location, in the order of the codes, each with that code as received
\* location and all alike in every other field, with the mode, date, time
\* and reports of the input contact; their number is the sum of the numbers
\* of codes.
C24_OneContactPerCode ==
    (prpc \in {"reading", "done"} /\ ~prst.raised) =>
        /\ Len(PreparedContacts) = CodesBefore(Len(prst.qso_lines))
        /\ \A k \in 1..Len(prst.qso_lines) :
              LET parts == prst.qso_lines[k]
                  codes == CodesOf(parts[11])
              IN  \A j \in 1..Len(codes) :
                     LET out == PreparedContacts[CodesBefore(k - 1) + j]
                         first == PreparedContacts[CodesBefore(k - 1) + 1]
                     IN  /\ Len(out) = 11
                         /\ WithoutMarker(out[11]) = codes[j]
                         /\ \A f \in 1..10 : out[f] = first[f]
                         /\ \A f \in {3, 4, 5, 7, 10} : out[f] = parts[f]

\* C24 witness: a contact with two received locations followed by one with
\* a single location has given three prepared contacts
C24_Witness ==
    /\ prpc = "done"
    /\ Len(prst.qso_lines) = 2
    /\ prst.qso_lines[1][11] = <<"ORLE", "/", "JEFF">>
    /\ Len(prst.qso_lines[2][11]) = 1
    /\ Len(PreparedContacts) = 3
    /\ PreparedContacts[1][11] = T("ORLE")
    /\ PreparedContacts[2][11] = T("JEFF")

(***************************************************************************)
(* C25: the DX marker                                                      *)
(***************************************************************************)
\* the side of a contact that calls for the marker: a foreign callsign with
\* an ambiguous location
SentSideAmbiguous(parts) ==
    is_dx_callsign(parts[6]) /\ In(parts[8], ambiguous_dx_qth)

ReceivedSideAmbiguous(parts) ==
    is_dx_callsign(parts[9]) /\ In(parts[11], ambiguous_dx_qth)

Marked(qth) == qth \o <<"DX">>

\* C25: at every point of prepare_log's loop, every emitted contact has the
\* sent location of its input contact, marked exactly when the sent side
\* calls for the marker, and its code of the received location, marked
\* exactly when the received side calls for it and the sent side does not:
\* never both, and neither when no side calls for it.
C25_AtMostOneMarker ==
    (prpc \in {"reading", "done"} /\ ~prst.raised) =>
        \A k \in 1..Len(prst.qso_lines) :
            LET parts == prst.qso_lines[k]
                codes == CodesOf(parts[11])
            IN  \A j \in 1..Len(codes) :
                   LET out == PreparedContacts[CodesBefore(k - 1) + j] IN
                   /\ out[8] = IF SentSideAmbiguous(parts)
                               THEN Marked(parts[8]) ELSE parts[8]
                   /\ out[11] = IF ~SentSideAmbiguous(parts)
                                   /\ ReceivedSideAmbiguous(parts)
                                THEN Marked(codes[j]) ELSE codes[j]

\* C25 witness: a contact both of whose sides call for the marker is
\* emitted with the sent location marked and the received one unchanged
C25_Witness ==
    /\ prpc = "done"
    /\ Len(prst.qso_lines) = 1
    /\ SentSideAmbiguous(prst.qso_lines[1])
    /\ ReceivedSideAmbiguous(prst.qso_lines[1])
    /\ PreparedContacts[1][8] = <<"ON", "DX">>
    /\ PreparedContacts[1][11] = T("ON")

(***************************************************************************)
(* C26: a frequency of no band                                             *)
(***************************************************************************)
BandNumbers == {"160", "80", "40", "20", "15", "10", "6", "2"}

\* C26: at every point of prepare_log, every contact it has emitted carries
\* one of the eight band numbers: a contact whose frequency maps to no band
\* makes prepare_log raise instead of being emitted.
C26_NoContactWithoutBand ==
    prpc \in {"reading", "done"} =>
        \A i \in 1..Len(PreparedContacts) :
            Len(PreparedContacts[i]) >= 2 => In(PreparedContacts[i][2], BandNumbers)

(***************************************************************************)
(* C29: the callsign from the log to the score                             *)
(***************************************************************************)
\* the lines prepare_log has ready for the prepared file once the category
\* line is inserted
LinesToWrite ==
    InsertAt(prst.prepared_lines, 1,
             <<T("TQP-CATEGORY:"),
               get_category_name(prout.info.location_type, prout.info.mode_category,
                                 prout.info.is_rover, prout.info.power_level,
                                 prout.info.overlay)>>)

HeaderCallsigns ==
    {h[2] : h \in {x \in prseen : x[1] = T("CALLSIGN:") /\ Len(x) > 1}}

\* C29: for a log with a CALLSIGN: header and contacts, once prepare_log is
\* done, score_log on the lines prepared for the file gives a result whose
\* callsign is the header's.
C29_CallsignSurvives ==
    (prpc = "done" /\ ~prst.raised /\ HeaderCallsigns # {} /\ Contacts # {}) =>
        /\ ~score_log(LinesToWrite).raised
        /\ score_log(LinesToWrite).callsign \in HeaderCallsigns

(***************************************************************************)
(* C30: the contacts counted by band                                       *)
(***************************************************************************)
\* every contact of the log scored carries a band number where the raw log
\* had the frequency, as reformat_qso_line leaves it
NormalizerContacts ==
    \A i \in 1..Len(slog) : Len(slog[i]) >= 11 /\ In(slog[i][2], BandNumbers)

\* C30: for a log of contacts as the Normalizer writes them, once score_log
\* is done the per-band counts sum to valid_qsos.
C30_BandCountsSum ==
    (spc = "done" /\ NormalizerContacts) =>
        BagCardinality(sres.qsos_by_band) = sres.valid_qsos

(***************************************************************************)
(* C27: the parser and exceptions                                          *)
(***************************************************************************)
\* C27: whatever the line, blank, unrecognised, or a QSO line short or with
\* a frequency that is no number, parse_cabrillo_line returns a value and
\* raises no exception.
C27_ParserNeverRaises == cpc = "done" => cparsed.raised = "None"

(***************************************************************************)
(* C28: statistics as a function of the logs                               *)
(***************************************************************************)
\* C28: after a call of generate_statistics, a further call on the same
\* generator with the same logs returns the same statistics and the same
\* per-parish sent and received counts as that call did.
C28_SameLogsSameStatistics ==
    stat_calls >= 1 =>
        /\ generate_statistics(self_parishes, stat_log_paths).stats = stat_returned
        /\ generate_statistics(self_parishes, stat_log_paths).parishes = self_parishes


====
